---------------------------- MODULE Spec2Model ----------------------------
(***************************************************************************)
(* Model of src/main.py: the system log parser and report generator.       *)
(*                                                                         *)
(* Text is modelled character by character: a Python str is a sequence of  *)
(* characters, so that the two line patterns, str.strip and                *)
(* datetime.strptime are computed on the characters as the code computes   *)
(* them.  A character up to U+00FF is the string of that one character; a  *)
(* character above U+00FF is the string "U+" and its code point in         *)
(* hexadecimal, as in "U+2003", and so is the grave accent, "U+0060",      *)
(* which a string of TLA+ does not hold alone.  A datetime is the tuple    *)
(* <<year, month, day, hour, minute, second, microsecond>>, ordered        *)
(* lexicographically; None is <<>>.                                        *)
(***************************************************************************)
EXTENDS Integers, Sequences, FiniteSets, TLC

VARIABLES
    levels,        \* args.levels, as given on the command line
    format,        \* args.format: "xlsx" or "csv"
    log_path,      \* args.input: the path of the log file
    output,        \* args.output: the path of the report, or None
    exists,        \* whether a file is at log_path
    input,         \* the lines of the file at log_path, in file order
    f,             \* main: the lines of the open file not read yet
    pc,            \* position of the running function
    raised,        \* the exception that ended the run, or None
    total_lines,   \* main: lines read so far
    rows,          \* main: the (ts, level, msg) records kept so far
    df,            \* main: the sorted table
    high_level,    \* main: the overview
    out_path,      \* the path the report is written to
    report,        \* the sheets written to the file at out_path
    stdout,        \* the lines printed
    line,          \* parse_line: its argument
    parsed,        \* parse_line: its return value
    s,             \* try_parse_dt: its argument
    dt             \* try_parse_dt: its return value

vars == <<levels, format, log_path, output, exists, input, f, pc, raised,
          total_lines, rows, df, high_level, out_path, report, stdout, line,
          parsed, s, dt>>

-----------------------------------------------------------------------------
(* Characters *)

None == <<>>

Digits == {"0", "1", "2", "3", "4", "5", "6", "7", "8", "9"}

UpperLetters ==
    {"A", "B", "C", "D", "E", "F", "G", "H", "I", "J", "K", "L", "M",
     "N", "O", "P", "Q", "R", "S", "T", "U", "V", "W", "X", "Y", "Z"}

\* the decimal digits beyond "0" ... "9" (the characters of str.isdecimal),
\* in blocks of ten: the k-th character of a block is the digit k - 1
UnicodeDigitBlocks ==
    << <<"U+0660", "U+0661", "U+0662", "U+0663", "U+0664",
         "U+0665", "U+0666", "U+0667", "U+0668", "U+0669">>,
       <<"U+06F0", "U+06F1", "U+06F2", "U+06F3", "U+06F4",
         "U+06F5", "U+06F6", "U+06F7", "U+06F8", "U+06F9">>,
       <<"U+07C0", "U+07C1", "U+07C2", "U+07C3", "U+07C4",
         "U+07C5", "U+07C6", "U+07C7", "U+07C8", "U+07C9">>,
       <<"U+0966", "U+0967", "U+0968", "U+0969", "U+096A",
         "U+096B", "U+096C", "U+096D", "U+096E", "U+096F">>,
       <<"U+09E6", "U+09E7", "U+09E8", "U+09E9", "U+09EA",
         "U+09EB", "U+09EC", "U+09ED", "U+09EE", "U+09EF">>,
       <<"U+0A66", "U+0A67", "U+0A68", "U+0A69", "U+0A6A",
         "U+0A6B", "U+0A6C", "U+0A6D", "U+0A6E", "U+0A6F">>,
       <<"U+0AE6", "U+0AE7", "U+0AE8", "U+0AE9", "U+0AEA",
         "U+0AEB", "U+0AEC", "U+0AED", "U+0AEE", "U+0AEF">>,
       <<"U+0B66", "U+0B67", "U+0B68", "U+0B69", "U+0B6A",
         "U+0B6B", "U+0B6C", "U+0B6D", "U+0B6E", "U+0B6F">>,
       <<"U+0BE6", "U+0BE7", "U+0BE8", "U+0BE9", "U+0BEA",
         "U+0BEB", "U+0BEC", "U+0BED", "U+0BEE", "U+0BEF">>,
       <<"U+0C66", "U+0C67", "U+0C68", "U+0C69", "U+0C6A",
         "U+0C6B", "U+0C6C", "U+0C6D", "U+0C6E", "U+0C6F">>,
       <<"U+0CE6", "U+0CE7", "U+0CE8", "U+0CE9", "U+0CEA",
         "U+0CEB", "U+0CEC", "U+0CED", "U+0CEE", "U+0CEF">>,
       <<"U+0D66", "U+0D67", "U+0D68", "U+0D69", "U+0D6A",
         "U+0D6B", "U+0D6C", "U+0D6D", "U+0D6E", "U+0D6F">>,
       <<"U+0DE6", "U+0DE7", "U+0DE8", "U+0DE9", "U+0DEA",
         "U+0DEB", "U+0DEC", "U+0DED", "U+0DEE", "U+0DEF">>,
       <<"U+0E50", "U+0E51", "U+0E52", "U+0E53", "U+0E54",
         "U+0E55", "U+0E56", "U+0E57", "U+0E58", "U+0E59">>,
       <<"U+0ED0", "U+0ED1", "U+0ED2", "U+0ED3", "U+0ED4",
         "U+0ED5", "U+0ED6", "U+0ED7", "U+0ED8", "U+0ED9">>,
       <<"U+0F20", "U+0F21", "U+0F22", "U+0F23", "U+0F24",
         "U+0F25", "U+0F26", "U+0F27", "U+0F28", "U+0F29">>,
       <<"U+1040", "U+1041", "U+1042", "U+1043", "U+1044",
         "U+1045", "U+1046", "U+1047", "U+1048", "U+1049">>,
       <<"U+1090", "U+1091", "U+1092", "U+1093", "U+1094",
         "U+1095", "U+1096", "U+1097", "U+1098", "U+1099">>,
       <<"U+17E0", "U+17E1", "U+17E2", "U+17E3", "U+17E4",
         "U+17E5", "U+17E6", "U+17E7", "U+17E8", "U+17E9">>,
       <<"U+1810", "U+1811", "U+1812", "U+1813", "U+1814",
         "U+1815", "U+1816", "U+1817", "U+1818", "U+1819">>,
       <<"U+1946", "U+1947", "U+1948", "U+1949", "U+194A",
         "U+194B", "U+194C", "U+194D", "U+194E", "U+194F">>,
       <<"U+19D0", "U+19D1", "U+19D2", "U+19D3", "U+19D4",
         "U+19D5", "U+19D6", "U+19D7", "U+19D8", "U+19D9">>,
       <<"U+1A80", "U+1A81", "U+1A82", "U+1A83", "U+1A84",
         "U+1A85", "U+1A86", "U+1A87", "U+1A88", "U+1A89">>,
       <<"U+1A90", "U+1A91", "U+1A92", "U+1A93", "U+1A94",
         "U+1A95", "U+1A96", "U+1A97", "U+1A98", "U+1A99">>,
       <<"U+1B50", "U+1B51", "U+1B52", "U+1B53", "U+1B54",
         "U+1B55", "U+1B56", "U+1B57", "U+1B58", "U+1B59">>,
       <<"U+1BB0", "U+1BB1", "U+1BB2", "U+1BB3", "U+1BB4",
         "U+1BB5", "U+1BB6", "U+1BB7", "U+1BB8", "U+1BB9">>,
       <<"U+1C40", "U+1C41", "U+1C42", "U+1C43", "U+1C44",
         "U+1C45", "U+1C46", "U+1C47", "U+1C48", "U+1C49">>,
       <<"U+1C50", "U+1C51", "U+1C52", "U+1C53", "U+1C54",
         "U+1C55", "U+1C56", "U+1C57", "U+1C58", "U+1C59">>,
       <<"U+A620", "U+A621", "U+A622", "U+A623", "U+A624",
         "U+A625", "U+A626", "U+A627", "U+A628", "U+A629">>,
       <<"U+A8D0", "U+A8D1", "U+A8D2", "U+A8D3", "U+A8D4",
         "U+A8D5", "U+A8D6", "U+A8D7", "U+A8D8", "U+A8D9">>,
       <<"U+A900", "U+A901", "U+A902", "U+A903", "U+A904",
         "U+A905", "U+A906", "U+A907", "U+A908", "U+A909">>,
       <<"U+A9D0", "U+A9D1", "U+A9D2", "U+A9D3", "U+A9D4",
         "U+A9D5", "U+A9D6", "U+A9D7", "U+A9D8", "U+A9D9">>,
       <<"U+A9F0", "U+A9F1", "U+A9F2", "U+A9F3", "U+A9F4",
         "U+A9F5", "U+A9F6", "U+A9F7", "U+A9F8", "U+A9F9">>,
       <<"U+AA50", "U+AA51", "U+AA52", "U+AA53", "U+AA54",
         "U+AA55", "U+AA56", "U+AA57", "U+AA58", "U+AA59">>,
       <<"U+ABF0", "U+ABF1", "U+ABF2", "U+ABF3", "U+ABF4",
         "U+ABF5", "U+ABF6", "U+ABF7", "U+ABF8", "U+ABF9">>,
       <<"U+FF10", "U+FF11", "U+FF12", "U+FF13", "U+FF14",
         "U+FF15", "U+FF16", "U+FF17", "U+FF18", "U+FF19">>,
       <<"U+104A0", "U+104A1", "U+104A2", "U+104A3", "U+104A4",
         "U+104A5", "U+104A6", "U+104A7", "U+104A8", "U+104A9">>,
       <<"U+10D30", "U+10D31", "U+10D32", "U+10D33", "U+10D34",
         "U+10D35", "U+10D36", "U+10D37", "U+10D38", "U+10D39">>,
       <<"U+11066", "U+11067", "U+11068", "U+11069", "U+1106A",
         "U+1106B", "U+1106C", "U+1106D", "U+1106E", "U+1106F">>,
       <<"U+110F0", "U+110F1", "U+110F2", "U+110F3", "U+110F4",
         "U+110F5", "U+110F6", "U+110F7", "U+110F8", "U+110F9">>,
       <<"U+11136", "U+11137", "U+11138", "U+11139", "U+1113A",
         "U+1113B", "U+1113C", "U+1113D", "U+1113E", "U+1113F">>,
       <<"U+111D0", "U+111D1", "U+111D2", "U+111D3", "U+111D4",
         "U+111D5", "U+111D6", "U+111D7", "U+111D8", "U+111D9">>,
       <<"U+112F0", "U+112F1", "U+112F2", "U+112F3", "U+112F4",
         "U+112F5", "U+112F6", "U+112F7", "U+112F8", "U+112F9">>,
       <<"U+11450", "U+11451", "U+11452", "U+11453", "U+11454",
         "U+11455", "U+11456", "U+11457", "U+11458", "U+11459">>,
       <<"U+114D0", "U+114D1", "U+114D2", "U+114D3", "U+114D4",
         "U+114D5", "U+114D6", "U+114D7", "U+114D8", "U+114D9">>,
       <<"U+11650", "U+11651", "U+11652", "U+11653", "U+11654",
         "U+11655", "U+11656", "U+11657", "U+11658", "U+11659">>,
       <<"U+116C0", "U+116C1", "U+116C2", "U+116C3", "U+116C4",
         "U+116C5", "U+116C6", "U+116C7", "U+116C8", "U+116C9">>,
       <<"U+11730", "U+11731", "U+11732", "U+11733", "U+11734",
         "U+11735", "U+11736", "U+11737", "U+11738", "U+11739">>,
       <<"U+118E0", "U+118E1", "U+118E2", "U+118E3", "U+118E4",
         "U+118E5", "U+118E6", "U+118E7", "U+118E8", "U+118E9">>,
       <<"U+11950", "U+11951", "U+11952", "U+11953", "U+11954",
         "U+11955", "U+11956", "U+11957", "U+11958", "U+11959">>,
       <<"U+11C50", "U+11C51", "U+11C52", "U+11C53", "U+11C54",
         "U+11C55", "U+11C56", "U+11C57", "U+11C58", "U+11C59">>,
       <<"U+11D50", "U+11D51", "U+11D52", "U+11D53", "U+11D54",
         "U+11D55", "U+11D56", "U+11D57", "U+11D58", "U+11D59">>,
       <<"U+11DA0", "U+11DA1", "U+11DA2", "U+11DA3", "U+11DA4",
         "U+11DA5", "U+11DA6", "U+11DA7", "U+11DA8", "U+11DA9">>,
       <<"U+16A60", "U+16A61", "U+16A62", "U+16A63", "U+16A64",
         "U+16A65", "U+16A66", "U+16A67", "U+16A68", "U+16A69">>,
       <<"U+16AC0", "U+16AC1", "U+16AC2", "U+16AC3", "U+16AC4",
         "U+16AC5", "U+16AC6", "U+16AC7", "U+16AC8", "U+16AC9">>,
       <<"U+16B50", "U+16B51", "U+16B52", "U+16B53", "U+16B54",
         "U+16B55", "U+16B56", "U+16B57", "U+16B58", "U+16B59">>,
       <<"U+1D7CE", "U+1D7CF", "U+1D7D0", "U+1D7D1", "U+1D7D2",
         "U+1D7D3", "U+1D7D4", "U+1D7D5", "U+1D7D6", "U+1D7D7">>,
       <<"U+1D7D8", "U+1D7D9", "U+1D7DA", "U+1D7DB", "U+1D7DC",
         "U+1D7DD", "U+1D7DE", "U+1D7DF", "U+1D7E0", "U+1D7E1">>,
       <<"U+1D7E2", "U+1D7E3", "U+1D7E4", "U+1D7E5", "U+1D7E6",
         "U+1D7E7", "U+1D7E8", "U+1D7E9", "U+1D7EA", "U+1D7EB">>,
       <<"U+1D7EC", "U+1D7ED", "U+1D7EE", "U+1D7EF", "U+1D7F0",
         "U+1D7F1", "U+1D7F2", "U+1D7F3", "U+1D7F4", "U+1D7F5">>,
       <<"U+1D7F6", "U+1D7F7", "U+1D7F8", "U+1D7F9", "U+1D7FA",
         "U+1D7FB", "U+1D7FC", "U+1D7FD", "U+1D7FE", "U+1D7FF">>,
       <<"U+1E140", "U+1E141", "U+1E142", "U+1E143", "U+1E144",
         "U+1E145", "U+1E146", "U+1E147", "U+1E148", "U+1E149">>,
       <<"U+1E2F0", "U+1E2F1", "U+1E2F2", "U+1E2F3", "U+1E2F4",
         "U+1E2F5", "U+1E2F6", "U+1E2F7", "U+1E2F8", "U+1E2F9">>,
       <<"U+1E950", "U+1E951", "U+1E952", "U+1E953", "U+1E954",
         "U+1E955", "U+1E956", "U+1E957", "U+1E958", "U+1E959">>,
       <<"U+1FBF0", "U+1FBF1", "U+1FBF2", "U+1FBF3", "U+1FBF4",
         "U+1FBF5", "U+1FBF6", "U+1FBF7", "U+1FBF8", "U+1FBF9">> >>

UnicodeDigits ==
    UNION {{UnicodeDigitBlocks[b][k] : k \in 1..10} : b \in 1..Len(UnicodeDigitBlocks)}

\* \d of the re module on a str: every decimal digit
DecimalDigits == Digits \cup UnicodeDigits

\* \s of the re module on a str, and the characters str.strip removes:
\* U+0009 ... U+000D, U+001C ... U+001F, the space, U+0085, U+00A0 and the
\* spaces above U+00FF
Whitespace ==
    {"\t", "\n", "", "\f", "\r", "", "", "", "", " ", "", " ",
     "U+1680", "U+2000", "U+2001", "U+2002", "U+2003", "U+2004", "U+2005",
     "U+2006", "U+2007", "U+2008", "U+2009", "U+200A", "U+2028", "U+2029",
     "U+202F", "U+205F", "U+3000"}

\* "." of the re module: any character but a newline
IsDot(c) == c # "\n"

LowerOf ==
    [c \in UpperLetters |->
        CASE c = "A" -> "a" [] c = "B" -> "b" [] c = "C" -> "c" [] c = "D" -> "d"
          [] c = "E" -> "e" [] c = "F" -> "f" [] c = "G" -> "g" [] c = "H" -> "h"
          [] c = "I" -> "i" [] c = "J" -> "j" [] c = "K" -> "k" [] c = "L" -> "l"
          [] c = "M" -> "m" [] c = "N" -> "n" [] c = "O" -> "o" [] c = "P" -> "p"
          [] c = "Q" -> "q" [] c = "R" -> "r" [] c = "S" -> "s" [] c = "T" -> "t"
          [] c = "U" -> "u" [] c = "V" -> "v" [] c = "W" -> "w" [] c = "X" -> "x"
          [] c = "Y" -> "y" [] c = "Z" -> "z"]

\* the characters str.upper changes, each with the text it becomes (one
\* character, or two or three as for U+00DF)
UpperPairs ==
    <<<<"a", <<"A">>>>, <<"b", <<"B">>>>, <<"c", <<"C">>>>, <<"d", <<"D">>>>,
      <<"e", <<"E">>>>, <<"f", <<"F">>>>, <<"g", <<"G">>>>, <<"h", <<"H">>>>,
      <<"i", <<"I">>>>, <<"j", <<"J">>>>, <<"k", <<"K">>>>, <<"l", <<"L">>>>,
      <<"m", <<"M">>>>, <<"n", <<"N">>>>, <<"o", <<"O">>>>, <<"p", <<"P">>>>,
      <<"q", <<"Q">>>>, <<"r", <<"R">>>>, <<"s", <<"S">>>>, <<"t", <<"T">>>>,
      <<"u", <<"U">>>>, <<"v", <<"V">>>>, <<"w", <<"W">>>>, <<"x", <<"X">>>>,
      <<"y", <<"Y">>>>, <<"z", <<"Z">>>>, <<"µ", <<"U+039C">>>>,
      <<"ß", <<"S", "S">>>>, <<"à", <<"À">>>>, <<"á", <<"Á">>>>,
      <<"â", <<"Â">>>>, <<"ã", <<"Ã">>>>, <<"ä", <<"Ä">>>>, <<"å", <<"Å">>>>,
      <<"æ", <<"Æ">>>>, <<"ç", <<"Ç">>>>, <<"è", <<"È">>>>, <<"é", <<"É">>>>,
      <<"ê", <<"Ê">>>>, <<"ë", <<"Ë">>>>, <<"ì", <<"Ì">>>>, <<"í", <<"Í">>>>,
      <<"î", <<"Î">>>>, <<"ï", <<"Ï">>>>, <<"ð", <<"Ð">>>>, <<"ñ", <<"Ñ">>>>,
      <<"ò", <<"Ò">>>>, <<"ó", <<"Ó">>>>, <<"ô", <<"Ô">>>>, <<"õ", <<"Õ">>>>,
      <<"ö", <<"Ö">>>>, <<"ø", <<"Ø">>>>, <<"ù", <<"Ù">>>>, <<"ú", <<"Ú">>>>,
      <<"û", <<"Û">>>>, <<"ü", <<"Ü">>>>, <<"ý", <<"Ý">>>>, <<"þ", <<"Þ">>>>,
      <<"ÿ", <<"U+0178">>>>, <<"U+0101", <<"U+0100">>>>,
      <<"U+0103", <<"U+0102">>>>, <<"U+0105", <<"U+0104">>>>,
      <<"U+0107", <<"U+0106">>>>, <<"U+0109", <<"U+0108">>>>,
      <<"U+010B", <<"U+010A">>>>, <<"U+010D", <<"U+010C">>>>,
      <<"U+010F", <<"U+010E">>>>, <<"U+0111", <<"U+0110">>>>,
      <<"U+0113", <<"U+0112">>>>, <<"U+0115", <<"U+0114">>>>,
      <<"U+0117", <<"U+0116">>>>, <<"U+0119", <<"U+0118">>>>,
      <<"U+011B", <<"U+011A">>>>, <<"U+011D", <<"U+011C">>>>,
      <<"U+011F", <<"U+011E">>>>, <<"U+0121", <<"U+0120">>>>,
      <<"U+0123", <<"U+0122">>>>, <<"U+0125", <<"U+0124">>>>,
      <<"U+0127", <<"U+0126">>>>, <<"U+0129", <<"U+0128">>>>,
      <<"U+012B", <<"U+012A">>>>, <<"U+012D", <<"U+012C">>>>,
      <<"U+012F", <<"U+012E">>>>, <<"U+0131", <<"I">>>>,
      <<"U+0133", <<"U+0132">>>>, <<"U+0135", <<"U+0134">>>>,
      <<"U+0137", <<"U+0136">>>>, <<"U+013A", <<"U+0139">>>>,
      <<"U+013C", <<"U+013B">>>>, <<"U+013E", <<"U+013D">>>>,
      <<"U+0140", <<"U+013F">>>>, <<"U+0142", <<"U+0141">>>>,
      <<"U+0144", <<"U+0143">>>>, <<"U+0146", <<"U+0145">>>>,
      <<"U+0148", <<"U+0147">>>>, <<"U+0149", <<"U+02BC", "N">>>>,
      <<"U+014B", <<"U+014A">>>>, <<"U+014D", <<"U+014C">>>>,
      <<"U+014F", <<"U+014E">>>>, <<"U+0151", <<"U+0150">>>>,
      <<"U+0153", <<"U+0152">>>>, <<"U+0155", <<"U+0154">>>>,
      <<"U+0157", <<"U+0156">>>>, <<"U+0159", <<"U+0158">>>>,
      <<"U+015B", <<"U+015A">>>>, <<"U+015D", <<"U+015C">>>>,
      <<"U+015F", <<"U+015E">>>>, <<"U+0161", <<"U+0160">>>>,
      <<"U+0163", <<"U+0162">>>>, <<"U+0165", <<"U+0164">>>>,
      <<"U+0167", <<"U+0166">>>>, <<"U+0169", <<"U+0168">>>>,
      <<"U+016B", <<"U+016A">>>>, <<"U+016D", <<"U+016C">>>>,
      <<"U+016F", <<"U+016E">>>>, <<"U+0171", <<"U+0170">>>>,
      <<"U+0173", <<"U+0172">>>>, <<"U+0175", <<"U+0174">>>>,
      <<"U+0177", <<"U+0176">>>>, <<"U+017A", <<"U+0179">>>>,
      <<"U+017C", <<"U+017B">>>>, <<"U+017E", <<"U+017D">>>>,
      <<"U+017F", <<"S">>>>, <<"U+0180", <<"U+0243">>>>,
      <<"U+0183", <<"U+0182">>>>, <<"U+0185", <<"U+0184">>>>,
      <<"U+0188", <<"U+0187">>>>, <<"U+018C", <<"U+018B">>>>,
      <<"U+0192", <<"U+0191">>>>, <<"U+0195", <<"U+01F6">>>>,
      <<"U+0199", <<"U+0198">>>>, <<"U+019A", <<"U+023D">>>>,
      <<"U+019E", <<"U+0220">>>>, <<"U+01A1", <<"U+01A0">>>>,
      <<"U+01A3", <<"U+01A2">>>>, <<"U+01A5", <<"U+01A4">>>>,
      <<"U+01A8", <<"U+01A7">>>>, <<"U+01AD", <<"U+01AC">>>>,
      <<"U+01B0", <<"U+01AF">>>>, <<"U+01B4", <<"U+01B3">>>>,
      <<"U+01B6", <<"U+01B5">>>>, <<"U+01B9", <<"U+01B8">>>>,
      <<"U+01BD", <<"U+01BC">>>>, <<"U+01BF", <<"U+01F7">>>>,
      <<"U+01C5", <<"U+01C4">>>>, <<"U+01C6", <<"U+01C4">>>>,
      <<"U+01C8", <<"U+01C7">>>>, <<"U+01C9", <<"U+01C7">>>>,
      <<"U+01CB", <<"U+01CA">>>>, <<"U+01CC", <<"U+01CA">>>>,
      <<"U+01CE", <<"U+01CD">>>>, <<"U+01D0", <<"U+01CF">>>>,
      <<"U+01D2", <<"U+01D1">>>>, <<"U+01D4", <<"U+01D3">>>>,
      <<"U+01D6", <<"U+01D5">>>>, <<"U+01D8", <<"U+01D7">>>>,
      <<"U+01DA", <<"U+01D9">>>>, <<"U+01DC", <<"U+01DB">>>>,
      <<"U+01DD", <<"U+018E">>>>, <<"U+01DF", <<"U+01DE">>>>,
      <<"U+01E1", <<"U+01E0">>>>, <<"U+01E3", <<"U+01E2">>>>,
      <<"U+01E5", <<"U+01E4">>>>, <<"U+01E7", <<"U+01E6">>>>,
      <<"U+01E9", <<"U+01E8">>>>, <<"U+01EB", <<"U+01EA">>>>,
      <<"U+01ED", <<"U+01EC">>>>, <<"U+01EF", <<"U+01EE">>>>,
      <<"U+01F0", <<"J", "U+030C">>>>, <<"U+01F2", <<"U+01F1">>>>,
      <<"U+01F3", <<"U+01F1">>>>, <<"U+01F5", <<"U+01F4">>>>,
      <<"U+01F9", <<"U+01F8">>>>, <<"U+01FB", <<"U+01FA">>>>,
      <<"U+01FD", <<"U+01FC">>>>, <<"U+01FF", <<"U+01FE">>>>,
      <<"U+0201", <<"U+0200">>>>, <<"U+0203", <<"U+0202">>>>,
      <<"U+0205", <<"U+0204">>>>, <<"U+0207", <<"U+0206">>>>,
      <<"U+0209", <<"U+0208">>>>, <<"U+020B", <<"U+020A">>>>,
      <<"U+020D", <<"U+020C">>>>, <<"U+020F", <<"U+020E">>>>,
      <<"U+0211", <<"U+0210">>>>, <<"U+0213", <<"U+0212">>>>,
      <<"U+0215", <<"U+0214">>>>, <<"U+0217", <<"U+0216">>>>,
      <<"U+0219", <<"U+0218">>>>, <<"U+021B", <<"U+021A">>>>,
      <<"U+021D", <<"U+021C">>>>, <<"U+021F", <<"U+021E">>>>,
      <<"U+0223", <<"U+0222">>>>, <<"U+0225", <<"U+0224">>>>,
      <<"U+0227", <<"U+0226">>>>, <<"U+0229", <<"U+0228">>>>,
      <<"U+022B", <<"U+022A">>>>, <<"U+022D", <<"U+022C">>>>,
      <<"U+022F", <<"U+022E">>>>, <<"U+0231", <<"U+0230">>>>,
      <<"U+0233", <<"U+0232">>>>, <<"U+023C", <<"U+023B">>>>,
      <<"U+023F", <<"U+2C7E">>>>, <<"U+0240", <<"U+2C7F">>>>,
      <<"U+0242", <<"U+0241">>>>, <<"U+0247", <<"U+0246">>>>,
      <<"U+0249", <<"U+0248">>>>, <<"U+024B", <<"U+024A">>>>,
      <<"U+024D", <<"U+024C">>>>, <<"U+024F", <<"U+024E">>>>,
      <<"U+0250", <<"U+2C6F">>>>, <<"U+0251", <<"U+2C6D">>>>,
      <<"U+0252", <<"U+2C70">>>>, <<"U+0253", <<"U+0181">>>>,
      <<"U+0254", <<"U+0186">>>>, <<"U+0256", <<"U+0189">>>>,
      <<"U+0257", <<"U+018A">>>>, <<"U+0259", <<"U+018F">>>>,
      <<"U+025B", <<"U+0190">>>>, <<"U+025C", <<"U+A7AB">>>>,
      <<"U+0260", <<"U+0193">>>>, <<"U+0261", <<"U+A7AC">>>>,
      <<"U+0263", <<"U+0194">>>>, <<"U+0265", <<"U+A78D">>>>,
      <<"U+0266", <<"U+A7AA">>>>, <<"U+0268", <<"U+0197">>>>,
      <<"U+0269", <<"U+0196">>>>, <<"U+026A", <<"U+A7AE">>>>,
      <<"U+026B", <<"U+2C62">>>>, <<"U+026C", <<"U+A7AD">>>>,
      <<"U+026F", <<"U+019C">>>>, <<"U+0271", <<"U+2C6E">>>>,
      <<"U+0272", <<"U+019D">>>>, <<"U+0275", <<"U+019F">>>>,
      <<"U+027D", <<"U+2C64">>>>, <<"U+0280", <<"U+01A6">>>>,
      <<"U+0282", <<"U+A7C5">>>>, <<"U+0283", <<"U+01A9">>>>,
      <<"U+0287", <<"U+A7B1">>>>, <<"U+0288", <<"U+01AE">>>>,
      <<"U+0289", <<"U+0244">>>>, <<"U+028A", <<"U+01B1">>>>,
      <<"U+028B", <<"U+01B2">>>>, <<"U+028C", <<"U+0245">>>>,
      <<"U+0292", <<"U+01B7">>>>, <<"U+029D", <<"U+A7B2">>>>,
      <<"U+029E", <<"U+A7B0">>>>, <<"U+0345", <<"U+0399">>>>,
      <<"U+0371", <<"U+0370">>>>, <<"U+0373", <<"U+0372">>>>,
      <<"U+0377", <<"U+0376">>>>, <<"U+037B", <<"U+03FD">>>>,
      <<"U+037C", <<"U+03FE">>>>, <<"U+037D", <<"U+03FF">>>>,
      <<"U+0390", <<"U+0399", "U+0308", "U+0301">>>>,
      <<"U+03AC", <<"U+0386">>>>, <<"U+03AD", <<"U+0388">>>>,
      <<"U+03AE", <<"U+0389">>>>, <<"U+03AF", <<"U+038A">>>>,
      <<"U+03B0", <<"U+03A5", "U+0308", "U+0301">>>>,
      <<"U+03B1", <<"U+0391">>>>, <<"U+03B2", <<"U+0392">>>>,
      <<"U+03B3", <<"U+0393">>>>, <<"U+03B4", <<"U+0394">>>>,
      <<"U+03B5", <<"U+0395">>>>, <<"U+03B6", <<"U+0396">>>>,
      <<"U+03B7", <<"U+0397">>>>, <<"U+03B8", <<"U+0398">>>>,
      <<"U+03B9", <<"U+0399">>>>, <<"U+03BA", <<"U+039A">>>>,
      <<"U+03BB", <<"U+039B">>>>, <<"U+03BC", <<"U+039C">>>>,
      <<"U+03BD", <<"U+039D">>>>, <<"U+03BE", <<"U+039E">>>>,
      <<"U+03BF", <<"U+039F">>>>, <<"U+03C0", <<"U+03A0">>>>,
      <<"U+03C1", <<"U+03A1">>>>, <<"U+03C2", <<"U+03A3">>>>,
      <<"U+03C3", <<"U+03A3">>>>, <<"U+03C4", <<"U+03A4">>>>,
      <<"U+03C5", <<"U+03A5">>>>, <<"U+03C6", <<"U+03A6">>>>,
      <<"U+03C7", <<"U+03A7">>>>, <<"U+03C8", <<"U+03A8">>>>,
      <<"U+03C9", <<"U+03A9">>>>, <<"U+03CA", <<"U+03AA">>>>,
      <<"U+03CB", <<"U+03AB">>>>, <<"U+03CC", <<"U+038C">>>>,
      <<"U+03CD", <<"U+038E">>>>, <<"U+03CE", <<"U+038F">>>>,
      <<"U+03D0", <<"U+0392">>>>, <<"U+03D1", <<"U+0398">>>>,
      <<"U+03D5", <<"U+03A6">>>>, <<"U+03D6", <<"U+03A0">>>>,
      <<"U+03D7", <<"U+03CF">>>>, <<"U+03D9", <<"U+03D8">>>>,
      <<"U+03DB", <<"U+03DA">>>>, <<"U+03DD", <<"U+03DC">>>>,
      <<"U+03DF", <<"U+03DE">>>>, <<"U+03E1", <<"U+03E0">>>>,
      <<"U+03E3", <<"U+03E2">>>>, <<"U+03E5", <<"U+03E4">>>>,
      <<"U+03E7", <<"U+03E6">>>>, <<"U+03E9", <<"U+03E8">>>>,
      <<"U+03EB", <<"U+03EA">>>>, <<"U+03ED", <<"U+03EC">>>>,
      <<"U+03EF", <<"U+03EE">>>>, <<"U+03F0", <<"U+039A">>>>,
      <<"U+03F1", <<"U+03A1">>>>, <<"U+03F2", <<"U+03F9">>>>,
      <<"U+03F3", <<"U+037F">>>>, <<"U+03F5", <<"U+0395">>>>,
      <<"U+03F8", <<"U+03F7">>>>, <<"U+03FB", <<"U+03FA">>>>,
      <<"U+0430", <<"U+0410">>>>, <<"U+0431", <<"U+0411">>>>,
      <<"U+0432", <<"U+0412">>>>, <<"U+0433", <<"U+0413">>>>,
      <<"U+0434", <<"U+0414">>>>, <<"U+0435", <<"U+0415">>>>,
      <<"U+0436", <<"U+0416">>>>, <<"U+0437", <<"U+0417">>>>,
      <<"U+0438", <<"U+0418">>>>, <<"U+0439", <<"U+0419">>>>,
      <<"U+043A", <<"U+041A">>>>, <<"U+043B", <<"U+041B">>>>,
      <<"U+043C", <<"U+041C">>>>, <<"U+043D", <<"U+041D">>>>,
      <<"U+043E", <<"U+041E">>>>, <<"U+043F", <<"U+041F">>>>,
      <<"U+0440", <<"U+0420">>>>, <<"U+0441", <<"U+0421">>>>,
      <<"U+0442", <<"U+0422">>>>, <<"U+0443", <<"U+0423">>>>,
      <<"U+0444", <<"U+0424">>>>, <<"U+0445", <<"U+0425">>>>,
      <<"U+0446", <<"U+0426">>>>, <<"U+0447", <<"U+0427">>>>,
      <<"U+0448", <<"U+0428">>>>, <<"U+0449", <<"U+0429">>>>,
      <<"U+044A", <<"U+042A">>>>, <<"U+044B", <<"U+042B">>>>,
      <<"U+044C", <<"U+042C">>>>, <<"U+044D", <<"U+042D">>>>,
      <<"U+044E", <<"U+042E">>>>, <<"U+044F", <<"U+042F">>>>,
      <<"U+0450", <<"U+0400">>>>, <<"U+0451", <<"U+0401">>>>,
      <<"U+0452", <<"U+0402">>>>, <<"U+0453", <<"U+0403">>>>,
      <<"U+0454", <<"U+0404">>>>, <<"U+0455", <<"U+0405">>>>,
      <<"U+0456", <<"U+0406">>>>, <<"U+0457", <<"U+0407">>>>,
      <<"U+0458", <<"U+0408">>>>, <<"U+0459", <<"U+0409">>>>,
      <<"U+045A", <<"U+040A">>>>, <<"U+045B", <<"U+040B">>>>,
      <<"U+045C", <<"U+040C">>>>, <<"U+045D", <<"U+040D">>>>,
      <<"U+045E", <<"U+040E">>>>, <<"U+045F", <<"U+040F">>>>,
      <<"U+0461", <<"U+0460">>>>, <<"U+0463", <<"U+0462">>>>,
      <<"U+0465", <<"U+0464">>>>, <<"U+0467", <<"U+0466">>>>,
      <<"U+0469", <<"U+0468">>>>, <<"U+046B", <<"U+046A">>>>,
      <<"U+046D", <<"U+046C">>>>, <<"U+046F", <<"U+046E">>>>,
      <<"U+0471", <<"U+0470">>>>, <<"U+0473", <<"U+0472">>>>,
      <<"U+0475", <<"U+0474">>>>, <<"U+0477", <<"U+0476">>>>,
      <<"U+0479", <<"U+0478">>>>, <<"U+047B", <<"U+047A">>>>,
      <<"U+047D", <<"U+047C">>>>, <<"U+047F", <<"U+047E">>>>,
      <<"U+0481", <<"U+0480">>>>, <<"U+048B", <<"U+048A">>>>,
      <<"U+048D", <<"U+048C">>>>, <<"U+048F", <<"U+048E">>>>,
      <<"U+0491", <<"U+0490">>>>, <<"U+0493", <<"U+0492">>>>,
      <<"U+0495", <<"U+0494">>>>, <<"U+0497", <<"U+0496">>>>,
      <<"U+0499", <<"U+0498">>>>, <<"U+049B", <<"U+049A">>>>,
      <<"U+049D", <<"U+049C">>>>, <<"U+049F", <<"U+049E">>>>,
      <<"U+04A1", <<"U+04A0">>>>, <<"U+04A3", <<"U+04A2">>>>,
      <<"U+04A5", <<"U+04A4">>>>, <<"U+04A7", <<"U+04A6">>>>,
      <<"U+04A9", <<"U+04A8">>>>, <<"U+04AB", <<"U+04AA">>>>,
      <<"U+04AD", <<"U+04AC">>>>, <<"U+04AF", <<"U+04AE">>>>,
      <<"U+04B1", <<"U+04B0">>>>, <<"U+04B3", <<"U+04B2">>>>,
      <<"U+04B5", <<"U+04B4">>>>, <<"U+04B7", <<"U+04B6">>>>,
      <<"U+04B9", <<"U+04B8">>>>, <<"U+04BB", <<"U+04BA">>>>,
      <<"U+04BD", <<"U+04BC">>>>, <<"U+04BF", <<"U+04BE">>>>,
      <<"U+04C2", <<"U+04C1">>>>, <<"U+04C4", <<"U+04C3">>>>,
      <<"U+04C6", <<"U+04C5">>>>, <<"U+04C8", <<"U+04C7">>>>,
      <<"U+04CA", <<"U+04C9">>>>, <<"U+04CC", <<"U+04CB">>>>,
      <<"U+04CE", <<"U+04CD">>>>, <<"U+04CF", <<"U+04C0">>>>,
      <<"U+04D1", <<"U+04D0">>>>, <<"U+04D3", <<"U+04D2">>>>,
      <<"U+04D5", <<"U+04D4">>>>, <<"U+04D7", <<"U+04D6">>>>,
      <<"U+04D9", <<"U+04D8">>>>, <<"U+04DB", <<"U+04DA">>>>,
      <<"U+04DD", <<"U+04DC">>>>, <<"U+04DF", <<"U+04DE">>>>,
      <<"U+04E1", <<"U+04E0">>>>, <<"U+04E3", <<"U+04E2">>>>,
      <<"U+04E5", <<"U+04E4">>>>, <<"U+04E7", <<"U+04E6">>>>,
      <<"U+04E9", <<"U+04E8">>>>, <<"U+04EB", <<"U+04EA">>>>,
      <<"U+04ED", <<"U+04EC">>>>, <<"U+04EF", <<"U+04EE">>>>,
      <<"U+04F1", <<"U+04F0">>>>, <<"U+04F3", <<"U+04F2">>>>,
      <<"U+04F5", <<"U+04F4">>>>, <<"U+04F7", <<"U+04F6">>>>,
      <<"U+04F9", <<"U+04F8">>>>, <<"U+04FB", <<"U+04FA">>>>,
      <<"U+04FD", <<"U+04FC">>>>, <<"U+04FF", <<"U+04FE">>>>,
      <<"U+0501", <<"U+0500">>>>, <<"U+0503", <<"U+0502">>>>,
      <<"U+0505", <<"U+0504">>>>, <<"U+0507", <<"U+0506">>>>,
      <<"U+0509", <<"U+0508">>>>, <<"U+050B", <<"U+050A">>>>,
      <<"U+050D", <<"U+050C">>>>, <<"U+050F", <<"U+050E">>>>,
      <<"U+0511", <<"U+0510">>>>, <<"U+0513", <<"U+0512">>>>,
      <<"U+0515", <<"U+0514">>>>, <<"U+0517", <<"U+0516">>>>,
      <<"U+0519", <<"U+0518">>>>, <<"U+051B", <<"U+051A">>>>,
      <<"U+051D", <<"U+051C">>>>, <<"U+051F", <<"U+051E">>>>,
      <<"U+0521", <<"U+0520">>>>, <<"U+0523", <<"U+0522">>>>,
      <<"U+0525", <<"U+0524">>>>, <<"U+0527", <<"U+0526">>>>,
      <<"U+0529", <<"U+0528">>>>, <<"U+052B", <<"U+052A">>>>,
      <<"U+052D", <<"U+052C">>>>, <<"U+052F", <<"U+052E">>>>,
      <<"U+0561", <<"U+0531">>>>, <<"U+0562", <<"U+0532">>>>,
      <<"U+0563", <<"U+0533">>>>, <<"U+0564", <<"U+0534">>>>,
      <<"U+0565", <<"U+0535">>>>, <<"U+0566", <<"U+0536">>>>,
      <<"U+0567", <<"U+0537">>>>, <<"U+0568", <<"U+0538">>>>,
      <<"U+0569", <<"U+0539">>>>, <<"U+056A", <<"U+053A">>>>,
      <<"U+056B", <<"U+053B">>>>, <<"U+056C", <<"U+053C">>>>,
      <<"U+056D", <<"U+053D">>>>, <<"U+056E", <<"U+053E">>>>,
      <<"U+056F", <<"U+053F">>>>, <<"U+0570", <<"U+0540">>>>,
      <<"U+0571", <<"U+0541">>>>, <<"U+0572", <<"U+0542">>>>,
      <<"U+0573", <<"U+0543">>>>, <<"U+0574", <<"U+0544">>>>,
      <<"U+0575", <<"U+0545">>>>, <<"U+0576", <<"U+0546">>>>,
      <<"U+0577", <<"U+0547">>>>, <<"U+0578", <<"U+0548">>>>,
      <<"U+0579", <<"U+0549">>>>, <<"U+057A", <<"U+054A">>>>,
      <<"U+057B", <<"U+054B">>>>, <<"U+057C", <<"U+054C">>>>,
      <<"U+057D", <<"U+054D">>>>, <<"U+057E", <<"U+054E">>>>,
      <<"U+057F", <<"U+054F">>>>, <<"U+0580", <<"U+0550">>>>,
      <<"U+0581", <<"U+0551">>>>, <<"U+0582", <<"U+0552">>>>,
      <<"U+0583", <<"U+0553">>>>, <<"U+0584", <<"U+0554">>>>,
      <<"U+0585", <<"U+0555">>>>, <<"U+0586", <<"U+0556">>>>,
      <<"U+0587", <<"U+0535", "U+0552">>>>, <<"U+10D0", <<"U+1C90">>>>,
      <<"U+10D1", <<"U+1C91">>>>, <<"U+10D2", <<"U+1C92">>>>,
      <<"U+10D3", <<"U+1C93">>>>, <<"U+10D4", <<"U+1C94">>>>,
      <<"U+10D5", <<"U+1C95">>>>, <<"U+10D6", <<"U+1C96">>>>,
      <<"U+10D7", <<"U+1C97">>>>, <<"U+10D8", <<"U+1C98">>>>,
      <<"U+10D9", <<"U+1C99">>>>, <<"U+10DA", <<"U+1C9A">>>>,
      <<"U+10DB", <<"U+1C9B">>>>, <<"U+10DC", <<"U+1C9C">>>>,
      <<"U+10DD", <<"U+1C9D">>>>, <<"U+10DE", <<"U+1C9E">>>>,
      <<"U+10DF", <<"U+1C9F">>>>, <<"U+10E0", <<"U+1CA0">>>>,
      <<"U+10E1", <<"U+1CA1">>>>, <<"U+10E2", <<"U+1CA2">>>>,
      <<"U+10E3", <<"U+1CA3">>>>, <<"U+10E4", <<"U+1CA4">>>>,
      <<"U+10E5", <<"U+1CA5">>>>, <<"U+10E6", <<"U+1CA6">>>>,
      <<"U+10E7", <<"U+1CA7">>>>, <<"U+10E8", <<"U+1CA8">>>>,
      <<"U+10E9", <<"U+1CA9">>>>, <<"U+10EA", <<"U+1CAA">>>>,
      <<"U+10EB", <<"U+1CAB">>>>, <<"U+10EC", <<"U+1CAC">>>>,
      <<"U+10ED", <<"U+1CAD">>>>, <<"U+10EE", <<"U+1CAE">>>>,
      <<"U+10EF", <<"U+1CAF">>>>, <<"U+10F0", <<"U+1CB0">>>>,
      <<"U+10F1", <<"U+1CB1">>>>, <<"U+10F2", <<"U+1CB2">>>>,
      <<"U+10F3", <<"U+1CB3">>>>, <<"U+10F4", <<"U+1CB4">>>>,
      <<"U+10F5", <<"U+1CB5">>>>, <<"U+10F6", <<"U+1CB6">>>>,
      <<"U+10F7", <<"U+1CB7">>>>, <<"U+10F8", <<"U+1CB8">>>>,
      <<"U+10F9", <<"U+1CB9">>>>, <<"U+10FA", <<"U+1CBA">>>>,
      <<"U+10FD", <<"U+1CBD">>>>, <<"U+10FE", <<"U+1CBE">>>>,
      <<"U+10FF", <<"U+1CBF">>>>, <<"U+13F8", <<"U+13F0">>>>,
      <<"U+13F9", <<"U+13F1">>>>, <<"U+13FA", <<"U+13F2">>>>,
      <<"U+13FB", <<"U+13F3">>>>, <<"U+13FC", <<"U+13F4">>>>,
      <<"U+13FD", <<"U+13F5">>>>, <<"U+1C80", <<"U+0412">>>>,
      <<"U+1C81", <<"U+0414">>>>, <<"U+1C82", <<"U+041E">>>>,
      <<"U+1C83", <<"U+0421">>>>, <<"U+1C84", <<"U+0422">>>>,
      <<"U+1C85", <<"U+0422">>>>, <<"U+1C86", <<"U+042A">>>>,
      <<"U+1C87", <<"U+0462">>>>, <<"U+1C88", <<"U+A64A">>>>,
      <<"U+1D79", <<"U+A77D">>>>, <<"U+1D7D", <<"U+2C63">>>>,
      <<"U+1D8E", <<"U+A7C6">>>>, <<"U+1E01", <<"U+1E00">>>>,
      <<"U+1E03", <<"U+1E02">>>>, <<"U+1E05", <<"U+1E04">>>>,
      <<"U+1E07", <<"U+1E06">>>>, <<"U+1E09", <<"U+1E08">>>>,
      <<"U+1E0B", <<"U+1E0A">>>>, <<"U+1E0D", <<"U+1E0C">>>>,
      <<"U+1E0F", <<"U+1E0E">>>>, <<"U+1E11", <<"U+1E10">>>>,
      <<"U+1E13", <<"U+1E12">>>>, <<"U+1E15", <<"U+1E14">>>>,
      <<"U+1E17", <<"U+1E16">>>>, <<"U+1E19", <<"U+1E18">>>>,
      <<"U+1E1B", <<"U+1E1A">>>>, <<"U+1E1D", <<"U+1E1C">>>>,
      <<"U+1E1F", <<"U+1E1E">>>>, <<"U+1E21", <<"U+1E20">>>>,
      <<"U+1E23", <<"U+1E22">>>>, <<"U+1E25", <<"U+1E24">>>>,
      <<"U+1E27", <<"U+1E26">>>>, <<"U+1E29", <<"U+1E28">>>>,
      <<"U+1E2B", <<"U+1E2A">>>>, <<"U+1E2D", <<"U+1E2C">>>>,
      <<"U+1E2F", <<"U+1E2E">>>>, <<"U+1E31", <<"U+1E30">>>>,
      <<"U+1E33", <<"U+1E32">>>>, <<"U+1E35", <<"U+1E34">>>>,
      <<"U+1E37", <<"U+1E36">>>>, <<"U+1E39", <<"U+1E38">>>>,
      <<"U+1E3B", <<"U+1E3A">>>>, <<"U+1E3D", <<"U+1E3C">>>>,
      <<"U+1E3F", <<"U+1E3E">>>>, <<"U+1E41", <<"U+1E40">>>>,
      <<"U+1E43", <<"U+1E42">>>>, <<"U+1E45", <<"U+1E44">>>>,
      <<"U+1E47", <<"U+1E46">>>>, <<"U+1E49", <<"U+1E48">>>>,
      <<"U+1E4B", <<"U+1E4A">>>>, <<"U+1E4D", <<"U+1E4C">>>>,
      <<"U+1E4F", <<"U+1E4E">>>>, <<"U+1E51", <<"U+1E50">>>>,
      <<"U+1E53", <<"U+1E52">>>>, <<"U+1E55", <<"U+1E54">>>>,
      <<"U+1E57", <<"U+1E56">>>>, <<"U+1E59", <<"U+1E58">>>>,
      <<"U+1E5B", <<"U+1E5A">>>>, <<"U+1E5D", <<"U+1E5C">>>>,
      <<"U+1E5F", <<"U+1E5E">>>>, <<"U+1E61", <<"U+1E60">>>>,
      <<"U+1E63", <<"U+1E62">>>>, <<"U+1E65", <<"U+1E64">>>>,
      <<"U+1E67", <<"U+1E66">>>>, <<"U+1E69", <<"U+1E68">>>>,
      <<"U+1E6B", <<"U+1E6A">>>>, <<"U+1E6D", <<"U+1E6C">>>>,
      <<"U+1E6F", <<"U+1E6E">>>>, <<"U+1E71", <<"U+1E70">>>>,
      <<"U+1E73", <<"U+1E72">>>>, <<"U+1E75", <<"U+1E74">>>>,
      <<"U+1E77", <<"U+1E76">>>>, <<"U+1E79", <<"U+1E78">>>>,
      <<"U+1E7B", <<"U+1E7A">>>>, <<"U+1E7D", <<"U+1E7C">>>>,
      <<"U+1E7F", <<"U+1E7E">>>>, <<"U+1E81", <<"U+1E80">>>>,
      <<"U+1E83", <<"U+1E82">>>>, <<"U+1E85", <<"U+1E84">>>>,
      <<"U+1E87", <<"U+1E86">>>>, <<"U+1E89", <<"U+1E88">>>>,
      <<"U+1E8B", <<"U+1E8A">>>>, <<"U+1E8D", <<"U+1E8C">>>>,
      <<"U+1E8F", <<"U+1E8E">>>>, <<"U+1E91", <<"U+1E90">>>>,
      <<"U+1E93", <<"U+1E92">>>>, <<"U+1E95", <<"U+1E94">>>>,
      <<"U+1E96", <<"H", "U+0331">>>>, <<"U+1E97", <<"T", "U+0308">>>>,
      <<"U+1E98", <<"W", "U+030A">>>>, <<"U+1E99", <<"Y", "U+030A">>>>,
      <<"U+1E9A", <<"A", "U+02BE">>>>, <<"U+1E9B", <<"U+1E60">>>>,
      <<"U+1EA1", <<"U+1EA0">>>>, <<"U+1EA3", <<"U+1EA2">>>>,
      <<"U+1EA5", <<"U+1EA4">>>>, <<"U+1EA7", <<"U+1EA6">>>>,
      <<"U+1EA9", <<"U+1EA8">>>>, <<"U+1EAB", <<"U+1EAA">>>>,
      <<"U+1EAD", <<"U+1EAC">>>>, <<"U+1EAF", <<"U+1EAE">>>>,
      <<"U+1EB1", <<"U+1EB0">>>>, <<"U+1EB3", <<"U+1EB2">>>>,
      <<"U+1EB5", <<"U+1EB4">>>>, <<"U+1EB7", <<"U+1EB6">>>>,
      <<"U+1EB9", <<"U+1EB8">>>>, <<"U+1EBB", <<"U+1EBA">>>>,
      <<"U+1EBD", <<"U+1EBC">>>>, <<"U+1EBF", <<"U+1EBE">>>>,
      <<"U+1EC1", <<"U+1EC0">>>>, <<"U+1EC3", <<"U+1EC2">>>>,
      <<"U+1EC5", <<"U+1EC4">>>>, <<"U+1EC7", <<"U+1EC6">>>>,
      <<"U+1EC9", <<"U+1EC8">>>>, <<"U+1ECB", <<"U+1ECA">>>>,
      <<"U+1ECD", <<"U+1ECC">>>>, <<"U+1ECF", <<"U+1ECE">>>>,
      <<"U+1ED1", <<"U+1ED0">>>>, <<"U+1ED3", <<"U+1ED2">>>>,
      <<"U+1ED5", <<"U+1ED4">>>>, <<"U+1ED7", <<"U+1ED6">>>>,
      <<"U+1ED9", <<"U+1ED8">>>>, <<"U+1EDB", <<"U+1EDA">>>>,
      <<"U+1EDD", <<"U+1EDC">>>>, <<"U+1EDF", <<"U+1EDE">>>>,
      <<"U+1EE1", <<"U+1EE0">>>>, <<"U+1EE3", <<"U+1EE2">>>>,
      <<"U+1EE5", <<"U+1EE4">>>>, <<"U+1EE7", <<"U+1EE6">>>>,
      <<"U+1EE9", <<"U+1EE8">>>>, <<"U+1EEB", <<"U+1EEA">>>>,
      <<"U+1EED", <<"U+1EEC">>>>, <<"U+1EEF", <<"U+1EEE">>>>,
      <<"U+1EF1", <<"U+1EF0">>>>, <<"U+1EF3", <<"U+1EF2">>>>,
      <<"U+1EF5", <<"U+1EF4">>>>, <<"U+1EF7", <<"U+1EF6">>>>,
      <<"U+1EF9", <<"U+1EF8">>>>, <<"U+1EFB", <<"U+1EFA">>>>,
      <<"U+1EFD", <<"U+1EFC">>>>, <<"U+1EFF", <<"U+1EFE">>>>,
      <<"U+1F00", <<"U+1F08">>>>, <<"U+1F01", <<"U+1F09">>>>,
      <<"U+1F02", <<"U+1F0A">>>>, <<"U+1F03", <<"U+1F0B">>>>,
      <<"U+1F04", <<"U+1F0C">>>>, <<"U+1F05", <<"U+1F0D">>>>,
      <<"U+1F06", <<"U+1F0E">>>>, <<"U+1F07", <<"U+1F0F">>>>,
      <<"U+1F10", <<"U+1F18">>>>, <<"U+1F11", <<"U+1F19">>>>,
      <<"U+1F12", <<"U+1F1A">>>>, <<"U+1F13", <<"U+1F1B">>>>,
      <<"U+1F14", <<"U+1F1C">>>>, <<"U+1F15", <<"U+1F1D">>>>,
      <<"U+1F20", <<"U+1F28">>>>, <<"U+1F21", <<"U+1F29">>>>,
      <<"U+1F22", <<"U+1F2A">>>>, <<"U+1F23", <<"U+1F2B">>>>,
      <<"U+1F24", <<"U+1F2C">>>>, <<"U+1F25", <<"U+1F2D">>>>,
      <<"U+1F26", <<"U+1F2E">>>>, <<"U+1F27", <<"U+1F2F">>>>,
      <<"U+1F30", <<"U+1F38">>>>, <<"U+1F31", <<"U+1F39">>>>,
      <<"U+1F32", <<"U+1F3A">>>>, <<"U+1F33", <<"U+1F3B">>>>,
      <<"U+1F34", <<"U+1F3C">>>>, <<"U+1F35", <<"U+1F3D">>>>,
      <<"U+1F36", <<"U+1F3E">>>>, <<"U+1F37", <<"U+1F3F">>>>,
      <<"U+1F40", <<"U+1F48">>>>, <<"U+1F41", <<"U+1F49">>>>,
      <<"U+1F42", <<"U+1F4A">>>>, <<"U+1F43", <<"U+1F4B">>>>,
      <<"U+1F44", <<"U+1F4C">>>>, <<"U+1F45", <<"U+1F4D">>>>,
      <<"U+1F50", <<"U+03A5", "U+0313">>>>, <<"U+1F51", <<"U+1F59">>>>,
      <<"U+1F52", <<"U+03A5", "U+0313", "U+0300">>>>,
      <<"U+1F53", <<"U+1F5B">>>>,
      <<"U+1F54", <<"U+03A5", "U+0313", "U+0301">>>>,
      <<"U+1F55", <<"U+1F5D">>>>,
      <<"U+1F56", <<"U+03A5", "U+0313", "U+0342">>>>,
      <<"U+1F57", <<"U+1F5F">>>>, <<"U+1F60", <<"U+1F68">>>>,
      <<"U+1F61", <<"U+1F69">>>>, <<"U+1F62", <<"U+1F6A">>>>,
      <<"U+1F63", <<"U+1F6B">>>>, <<"U+1F64", <<"U+1F6C">>>>,
      <<"U+1F65", <<"U+1F6D">>>>, <<"U+1F66", <<"U+1F6E">>>>,
      <<"U+1F67", <<"U+1F6F">>>>, <<"U+1F70", <<"U+1FBA">>>>,
      <<"U+1F71", <<"U+1FBB">>>>, <<"U+1F72", <<"U+1FC8">>>>,
      <<"U+1F73", <<"U+1FC9">>>>, <<"U+1F74", <<"U+1FCA">>>>,
      <<"U+1F75", <<"U+1FCB">>>>, <<"U+1F76", <<"U+1FDA">>>>,
      <<"U+1F77", <<"U+1FDB">>>>, <<"U+1F78", <<"U+1FF8">>>>,
      <<"U+1F79", <<"U+1FF9">>>>, <<"U+1F7A", <<"U+1FEA">>>>,
      <<"U+1F7B", <<"U+1FEB">>>>, <<"U+1F7C", <<"U+1FFA">>>>,
      <<"U+1F7D", <<"U+1FFB">>>>, <<"U+1F80", <<"U+1F08", "U+0399">>>>,
      <<"U+1F81", <<"U+1F09", "U+0399">>>>,
      <<"U+1F82", <<"U+1F0A", "U+0399">>>>,
      <<"U+1F83", <<"U+1F0B", "U+0399">>>>,
      <<"U+1F84", <<"U+1F0C", "U+0399">>>>,
      <<"U+1F85", <<"U+1F0D", "U+0399">>>>,
      <<"U+1F86", <<"U+1F0E", "U+0399">>>>,
      <<"U+1F87", <<"U+1F0F", "U+0399">>>>,
      <<"U+1F88", <<"U+1F08", "U+0399">>>>,
      <<"U+1F89", <<"U+1F09", "U+0399">>>>,
      <<"U+1F8A", <<"U+1F0A", "U+0399">>>>,
      <<"U+1F8B", <<"U+1F0B", "U+0399">>>>,
      <<"U+1F8C", <<"U+1F0C", "U+0399">>>>,
      <<"U+1F8D", <<"U+1F0D", "U+0399">>>>,
      <<"U+1F8E", <<"U+1F0E", "U+0399">>>>,
      <<"U+1F8F", <<"U+1F0F", "U+0399">>>>,
      <<"U+1F90", <<"U+1F28", "U+0399">>>>,
      <<"U+1F91", <<"U+1F29", "U+0399">>>>,
      <<"U+1F92", <<"U+1F2A", "U+0399">>>>,
      <<"U+1F93", <<"U+1F2B", "U+0399">>>>,
      <<"U+1F94", <<"U+1F2C", "U+0399">>>>,
      <<"U+1F95", <<"U+1F2D", "U+0399">>>>,
      <<"U+1F96", <<"U+1F2E", "U+0399">>>>,
      <<"U+1F97", <<"U+1F2F", "U+0399">>>>,
      <<"U+1F98", <<"U+1F28", "U+0399">>>>,
      <<"U+1F99", <<"U+1F29", "U+0399">>>>,
      <<"U+1F9A", <<"U+1F2A", "U+0399">>>>,
      <<"U+1F9B", <<"U+1F2B", "U+0399">>>>,
      <<"U+1F9C", <<"U+1F2C", "U+0399">>>>,
      <<"U+1F9D", <<"U+1F2D", "U+0399">>>>,
      <<"U+1F9E", <<"U+1F2E", "U+0399">>>>,
      <<"U+1F9F", <<"U+1F2F", "U+0399">>>>,
      <<"U+1FA0", <<"U+1F68", "U+0399">>>>,
      <<"U+1FA1", <<"U+1F69", "U+0399">>>>,
      <<"U+1FA2", <<"U+1F6A", "U+0399">>>>,
      <<"U+1FA3", <<"U+1F6B", "U+0399">>>>,
      <<"U+1FA4", <<"U+1F6C", "U+0399">>>>,
      <<"U+1FA5", <<"U+1F6D", "U+0399">>>>,
      <<"U+1FA6", <<"U+1F6E", "U+0399">>>>,
      <<"U+1FA7", <<"U+1F6F", "U+0399">>>>,
      <<"U+1FA8", <<"U+1F68", "U+0399">>>>,
      <<"U+1FA9", <<"U+1F69", "U+0399">>>>,
      <<"U+1FAA", <<"U+1F6A", "U+0399">>>>,
      <<"U+1FAB", <<"U+1F6B", "U+0399">>>>,
      <<"U+1FAC", <<"U+1F6C", "U+0399">>>>,
      <<"U+1FAD", <<"U+1F6D", "U+0399">>>>,
      <<"U+1FAE", <<"U+1F6E", "U+0399">>>>,
      <<"U+1FAF", <<"U+1F6F", "U+0399">>>>, <<"U+1FB0", <<"U+1FB8">>>>,
      <<"U+1FB1", <<"U+1FB9">>>>, <<"U+1FB2", <<"U+1FBA", "U+0399">>>>,
      <<"U+1FB3", <<"U+0391", "U+0399">>>>,
      <<"U+1FB4", <<"U+0386", "U+0399">>>>,
      <<"U+1FB6", <<"U+0391", "U+0342">>>>,
      <<"U+1FB7", <<"U+0391", "U+0342", "U+0399">>>>,
      <<"U+1FBC", <<"U+0391", "U+0399">>>>, <<"U+1FBE", <<"U+0399">>>>,
      <<"U+1FC2", <<"U+1FCA", "U+0399">>>>,
      <<"U+1FC3", <<"U+0397", "U+0399">>>>,
      <<"U+1FC4", <<"U+0389", "U+0399">>>>,
      <<"U+1FC6", <<"U+0397", "U+0342">>>>,
      <<"U+1FC7", <<"U+0397", "U+0342", "U+0399">>>>,
      <<"U+1FCC", <<"U+0397", "U+0399">>>>, <<"U+1FD0", <<"U+1FD8">>>>,
      <<"U+1FD1", <<"U+1FD9">>>>,
      <<"U+1FD2", <<"U+0399", "U+0308", "U+0300">>>>,
      <<"U+1FD3", <<"U+0399", "U+0308", "U+0301">>>>,
      <<"U+1FD6", <<"U+0399", "U+0342">>>>,
      <<"U+1FD7", <<"U+0399", "U+0308", "U+0342">>>>,
      <<"U+1FE0", <<"U+1FE8">>>>, <<"U+1FE1", <<"U+1FE9">>>>,
      <<"U+1FE2", <<"U+03A5", "U+0308", "U+0300">>>>,
      <<"U+1FE3", <<"U+03A5", "U+0308", "U+0301">>>>,
      <<"U+1FE4", <<"U+03A1", "U+0313">>>>, <<"U+1FE5", <<"U+1FEC">>>>,
      <<"U+1FE6", <<"U+03A5", "U+0342">>>>,
      <<"U+1FE7", <<"U+03A5", "U+0308", "U+0342">>>>,
      <<"U+1FF2", <<"U+1FFA", "U+0399">>>>,
      <<"U+1FF3", <<"U+03A9", "U+0399">>>>,
      <<"U+1FF4", <<"U+038F", "U+0399">>>>,
      <<"U+1FF6", <<"U+03A9", "U+0342">>>>,
      <<"U+1FF7", <<"U+03A9", "U+0342", "U+0399">>>>,
      <<"U+1FFC", <<"U+03A9", "U+0399">>>>, <<"U+214E", <<"U+2132">>>>,
      <<"U+2170", <<"U+2160">>>>, <<"U+2171", <<"U+2161">>>>,
      <<"U+2172", <<"U+2162">>>>, <<"U+2173", <<"U+2163">>>>,
      <<"U+2174", <<"U+2164">>>>, <<"U+2175", <<"U+2165">>>>,
      <<"U+2176", <<"U+2166">>>>, <<"U+2177", <<"U+2167">>>>,
      <<"U+2178", <<"U+2168">>>>, <<"U+2179", <<"U+2169">>>>,
      <<"U+217A", <<"U+216A">>>>, <<"U+217B", <<"U+216B">>>>,
      <<"U+217C", <<"U+216C">>>>, <<"U+217D", <<"U+216D">>>>,
      <<"U+217E", <<"U+216E">>>>, <<"U+217F", <<"U+216F">>>>,
      <<"U+2184", <<"U+2183">>>>, <<"U+24D0", <<"U+24B6">>>>,
      <<"U+24D1", <<"U+24B7">>>>, <<"U+24D2", <<"U+24B8">>>>,
      <<"U+24D3", <<"U+24B9">>>>, <<"U+24D4", <<"U+24BA">>>>,
      <<"U+24D5", <<"U+24BB">>>>, <<"U+24D6", <<"U+24BC">>>>,
      <<"U+24D7", <<"U+24BD">>>>, <<"U+24D8", <<"U+24BE">>>>,
      <<"U+24D9", <<"U+24BF">>>>, <<"U+24DA", <<"U+24C0">>>>,
      <<"U+24DB", <<"U+24C1">>>>, <<"U+24DC", <<"U+24C2">>>>,
      <<"U+24DD", <<"U+24C3">>>>, <<"U+24DE", <<"U+24C4">>>>,
      <<"U+24DF", <<"U+24C5">>>>, <<"U+24E0", <<"U+24C6">>>>,
      <<"U+24E1", <<"U+24C7">>>>, <<"U+24E2", <<"U+24C8">>>>,
      <<"U+24E3", <<"U+24C9">>>>, <<"U+24E4", <<"U+24CA">>>>,
      <<"U+24E5", <<"U+24CB">>>>, <<"U+24E6", <<"U+24CC">>>>,
      <<"U+24E7", <<"U+24CD">>>>, <<"U+24E8", <<"U+24CE">>>>,
      <<"U+24E9", <<"U+24CF">>>>, <<"U+2C30", <<"U+2C00">>>>,
      <<"U+2C31", <<"U+2C01">>>>, <<"U+2C32", <<"U+2C02">>>>,
      <<"U+2C33", <<"U+2C03">>>>, <<"U+2C34", <<"U+2C04">>>>,
      <<"U+2C35", <<"U+2C05">>>>, <<"U+2C36", <<"U+2C06">>>>,
      <<"U+2C37", <<"U+2C07">>>>, <<"U+2C38", <<"U+2C08">>>>,
      <<"U+2C39", <<"U+2C09">>>>, <<"U+2C3A", <<"U+2C0A">>>>,
      <<"U+2C3B", <<"U+2C0B">>>>, <<"U+2C3C", <<"U+2C0C">>>>,
      <<"U+2C3D", <<"U+2C0D">>>>, <<"U+2C3E", <<"U+2C0E">>>>,
      <<"U+2C3F", <<"U+2C0F">>>>, <<"U+2C40", <<"U+2C10">>>>,
      <<"U+2C41", <<"U+2C11">>>>, <<"U+2C42", <<"U+2C12">>>>,
      <<"U+2C43", <<"U+2C13">>>>, <<"U+2C44", <<"U+2C14">>>>,
      <<"U+2C45", <<"U+2C15">>>>, <<"U+2C46", <<"U+2C16">>>>,
      <<"U+2C47", <<"U+2C17">>>>, <<"U+2C48", <<"U+2C18">>>>,
      <<"U+2C49", <<"U+2C19">>>>, <<"U+2C4A", <<"U+2C1A">>>>,
      <<"U+2C4B", <<"U+2C1B">>>>, <<"U+2C4C", <<"U+2C1C">>>>,
      <<"U+2C4D", <<"U+2C1D">>>>, <<"U+2C4E", <<"U+2C1E">>>>,
      <<"U+2C4F", <<"U+2C1F">>>>, <<"U+2C50", <<"U+2C20">>>>,
      <<"U+2C51", <<"U+2C21">>>>, <<"U+2C52", <<"U+2C22">>>>,
      <<"U+2C53", <<"U+2C23">>>>, <<"U+2C54", <<"U+2C24">>>>,
      <<"U+2C55", <<"U+2C25">>>>, <<"U+2C56", <<"U+2C26">>>>,
      <<"U+2C57", <<"U+2C27">>>>, <<"U+2C58", <<"U+2C28">>>>,
      <<"U+2C59", <<"U+2C29">>>>, <<"U+2C5A", <<"U+2C2A">>>>,
      <<"U+2C5B", <<"U+2C2B">>>>, <<"U+2C5C", <<"U+2C2C">>>>,
      <<"U+2C5D", <<"U+2C2D">>>>, <<"U+2C5E", <<"U+2C2E">>>>,
      <<"U+2C5F", <<"U+2C2F">>>>, <<"U+2C61", <<"U+2C60">>>>,
      <<"U+2C65", <<"U+023A">>>>, <<"U+2C66", <<"U+023E">>>>,
      <<"U+2C68", <<"U+2C67">>>>, <<"U+2C6A", <<"U+2C69">>>>,
      <<"U+2C6C", <<"U+2C6B">>>>, <<"U+2C73", <<"U+2C72">>>>,
      <<"U+2C76", <<"U+2C75">>>>, <<"U+2C81", <<"U+2C80">>>>,
      <<"U+2C83", <<"U+2C82">>>>, <<"U+2C85", <<"U+2C84">>>>,
      <<"U+2C87", <<"U+2C86">>>>, <<"U+2C89", <<"U+2C88">>>>,
      <<"U+2C8B", <<"U+2C8A">>>>, <<"U+2C8D", <<"U+2C8C">>>>,
      <<"U+2C8F", <<"U+2C8E">>>>, <<"U+2C91", <<"U+2C90">>>>,
      <<"U+2C93", <<"U+2C92">>>>, <<"U+2C95", <<"U+2C94">>>>,
      <<"U+2C97", <<"U+2C96">>>>, <<"U+2C99", <<"U+2C98">>>>,
      <<"U+2C9B", <<"U+2C9A">>>>, <<"U+2C9D", <<"U+2C9C">>>>,
      <<"U+2C9F", <<"U+2C9E">>>>, <<"U+2CA1", <<"U+2CA0">>>>,
      <<"U+2CA3", <<"U+2CA2">>>>, <<"U+2CA5", <<"U+2CA4">>>>,
      <<"U+2CA7", <<"U+2CA6">>>>, <<"U+2CA9", <<"U+2CA8">>>>,
      <<"U+2CAB", <<"U+2CAA">>>>, <<"U+2CAD", <<"U+2CAC">>>>,
      <<"U+2CAF", <<"U+2CAE">>>>, <<"U+2CB1", <<"U+2CB0">>>>,
      <<"U+2CB3", <<"U+2CB2">>>>, <<"U+2CB5", <<"U+2CB4">>>>,
      <<"U+2CB7", <<"U+2CB6">>>>, <<"U+2CB9", <<"U+2CB8">>>>,
      <<"U+2CBB", <<"U+2CBA">>>>, <<"U+2CBD", <<"U+2CBC">>>>,
      <<"U+2CBF", <<"U+2CBE">>>>, <<"U+2CC1", <<"U+2CC0">>>>,
      <<"U+2CC3", <<"U+2CC2">>>>, <<"U+2CC5", <<"U+2CC4">>>>,
      <<"U+2CC7", <<"U+2CC6">>>>, <<"U+2CC9", <<"U+2CC8">>>>,
      <<"U+2CCB", <<"U+2CCA">>>>, <<"U+2CCD", <<"U+2CCC">>>>,
      <<"U+2CCF", <<"U+2CCE">>>>, <<"U+2CD1", <<"U+2CD0">>>>,
      <<"U+2CD3", <<"U+2CD2">>>>, <<"U+2CD5", <<"U+2CD4">>>>,
      <<"U+2CD7", <<"U+2CD6">>>>, <<"U+2CD9", <<"U+2CD8">>>>,
      <<"U+2CDB", <<"U+2CDA">>>>, <<"U+2CDD", <<"U+2CDC">>>>,
      <<"U+2CDF", <<"U+2CDE">>>>, <<"U+2CE1", <<"U+2CE0">>>>,
      <<"U+2CE3", <<"U+2CE2">>>>, <<"U+2CEC", <<"U+2CEB">>>>,
      <<"U+2CEE", <<"U+2CED">>>>, <<"U+2CF3", <<"U+2CF2">>>>,
      <<"U+2D00", <<"U+10A0">>>>, <<"U+2D01", <<"U+10A1">>>>,
      <<"U+2D02", <<"U+10A2">>>>, <<"U+2D03", <<"U+10A3">>>>,
      <<"U+2D04", <<"U+10A4">>>>, <<"U+2D05", <<"U+10A5">>>>,
      <<"U+2D06", <<"U+10A6">>>>, <<"U+2D07", <<"U+10A7">>>>,
      <<"U+2D08", <<"U+10A8">>>>, <<"U+2D09", <<"U+10A9">>>>,
      <<"U+2D0A", <<"U+10AA">>>>, <<"U+2D0B", <<"U+10AB">>>>,
      <<"U+2D0C", <<"U+10AC">>>>, <<"U+2D0D", <<"U+10AD">>>>,
      <<"U+2D0E", <<"U+10AE">>>>, <<"U+2D0F", <<"U+10AF">>>>,
      <<"U+2D10", <<"U+10B0">>>>, <<"U+2D11", <<"U+10B1">>>>,
      <<"U+2D12", <<"U+10B2">>>>, <<"U+2D13", <<"U+10B3">>>>,
      <<"U+2D14", <<"U+10B4">>>>, <<"U+2D15", <<"U+10B5">>>>,
      <<"U+2D16", <<"U+10B6">>>>, <<"U+2D17", <<"U+10B7">>>>,
      <<"U+2D18", <<"U+10B8">>>>, <<"U+2D19", <<"U+10B9">>>>,
      <<"U+2D1A", <<"U+10BA">>>>, <<"U+2D1B", <<"U+10BB">>>>,
      <<"U+2D1C", <<"U+10BC">>>>, <<"U+2D1D", <<"U+10BD">>>>,
      <<"U+2D1E", <<"U+10BE">>>>, <<"U+2D1F", <<"U+10BF">>>>,
      <<"U+2D20", <<"U+10C0">>>>, <<"U+2D21", <<"U+10C1">>>>,
      <<"U+2D22", <<"U+10C2">>>>, <<"U+2D23", <<"U+10C3">>>>,
      <<"U+2D24", <<"U+10C4">>>>, <<"U+2D25", <<"U+10C5">>>>,
      <<"U+2D27", <<"U+10C7">>>>, <<"U+2D2D", <<"U+10CD">>>>,
      <<"U+A641", <<"U+A640">>>>, <<"U+A643", <<"U+A642">>>>,
      <<"U+A645", <<"U+A644">>>>, <<"U+A647", <<"U+A646">>>>,
      <<"U+A649", <<"U+A648">>>>, <<"U+A64B", <<"U+A64A">>>>,
      <<"U+A64D", <<"U+A64C">>>>, <<"U+A64F", <<"U+A64E">>>>,
      <<"U+A651", <<"U+A650">>>>, <<"U+A653", <<"U+A652">>>>,
      <<"U+A655", <<"U+A654">>>>, <<"U+A657", <<"U+A656">>>>,
      <<"U+A659", <<"U+A658">>>>, <<"U+A65B", <<"U+A65A">>>>,
      <<"U+A65D", <<"U+A65C">>>>, <<"U+A65F", <<"U+A65E">>>>,
      <<"U+A661", <<"U+A660">>>>, <<"U+A663", <<"U+A662">>>>,
      <<"U+A665", <<"U+A664">>>>, <<"U+A667", <<"U+A666">>>>,
      <<"U+A669", <<"U+A668">>>>, <<"U+A66B", <<"U+A66A">>>>,
      <<"U+A66D", <<"U+A66C">>>>, <<"U+A681", <<"U+A680">>>>,
      <<"U+A683", <<"U+A682">>>>, <<"U+A685", <<"U+A684">>>>,
      <<"U+A687", <<"U+A686">>>>, <<"U+A689", <<"U+A688">>>>,
      <<"U+A68B", <<"U+A68A">>>>, <<"U+A68D", <<"U+A68C">>>>,
      <<"U+A68F", <<"U+A68E">>>>, <<"U+A691", <<"U+A690">>>>,
      <<"U+A693", <<"U+A692">>>>, <<"U+A695", <<"U+A694">>>>,
      <<"U+A697", <<"U+A696">>>>, <<"U+A699", <<"U+A698">>>>,
      <<"U+A69B", <<"U+A69A">>>>, <<"U+A723", <<"U+A722">>>>,
      <<"U+A725", <<"U+A724">>>>, <<"U+A727", <<"U+A726">>>>,
      <<"U+A729", <<"U+A728">>>>, <<"U+A72B", <<"U+A72A">>>>,
      <<"U+A72D", <<"U+A72C">>>>, <<"U+A72F", <<"U+A72E">>>>,
      <<"U+A733", <<"U+A732">>>>, <<"U+A735", <<"U+A734">>>>,
      <<"U+A737", <<"U+A736">>>>, <<"U+A739", <<"U+A738">>>>,
      <<"U+A73B", <<"U+A73A">>>>, <<"U+A73D", <<"U+A73C">>>>,
      <<"U+A73F", <<"U+A73E">>>>, <<"U+A741", <<"U+A740">>>>,
      <<"U+A743", <<"U+A742">>>>, <<"U+A745", <<"U+A744">>>>,
      <<"U+A747", <<"U+A746">>>>, <<"U+A749", <<"U+A748">>>>,
      <<"U+A74B", <<"U+A74A">>>>, <<"U+A74D", <<"U+A74C">>>>,
      <<"U+A74F", <<"U+A74E">>>>, <<"U+A751", <<"U+A750">>>>,
      <<"U+A753", <<"U+A752">>>>, <<"U+A755", <<"U+A754">>>>,
      <<"U+A757", <<"U+A756">>>>, <<"U+A759", <<"U+A758">>>>,
      <<"U+A75B", <<"U+A75A">>>>, <<"U+A75D", <<"U+A75C">>>>,
      <<"U+A75F", <<"U+A75E">>>>, <<"U+A761", <<"U+A760">>>>,
      <<"U+A763", <<"U+A762">>>>, <<"U+A765", <<"U+A764">>>>,
      <<"U+A767", <<"U+A766">>>>, <<"U+A769", <<"U+A768">>>>,
      <<"U+A76B", <<"U+A76A">>>>, <<"U+A76D", <<"U+A76C">>>>,
      <<"U+A76F", <<"U+A76E">>>>, <<"U+A77A", <<"U+A779">>>>,
      <<"U+A77C", <<"U+A77B">>>>, <<"U+A77F", <<"U+A77E">>>>,
      <<"U+A781", <<"U+A780">>>>, <<"U+A783", <<"U+A782">>>>,
      <<"U+A785", <<"U+A784">>>>, <<"U+A787", <<"U+A786">>>>,
      <<"U+A78C", <<"U+A78B">>>>, <<"U+A791", <<"U+A790">>>>,
      <<"U+A793", <<"U+A792">>>>, <<"U+A794", <<"U+A7C4">>>>,
      <<"U+A797", <<"U+A796">>>>, <<"U+A799", <<"U+A798">>>>,
      <<"U+A79B", <<"U+A79A">>>>, <<"U+A79D", <<"U+A79C">>>>,
      <<"U+A79F", <<"U+A79E">>>>, <<"U+A7A1", <<"U+A7A0">>>>,
      <<"U+A7A3", <<"U+A7A2">>>>, <<"U+A7A5", <<"U+A7A4">>>>,
      <<"U+A7A7", <<"U+A7A6">>>>, <<"U+A7A9", <<"U+A7A8">>>>,
      <<"U+A7B5", <<"U+A7B4">>>>, <<"U+A7B7", <<"U+A7B6">>>>,
      <<"U+A7B9", <<"U+A7B8">>>>, <<"U+A7BB", <<"U+A7BA">>>>,
      <<"U+A7BD", <<"U+A7BC">>>>, <<"U+A7BF", <<"U+A7BE">>>>,
      <<"U+A7C1", <<"U+A7C0">>>>, <<"U+A7C3", <<"U+A7C2">>>>,
      <<"U+A7C8", <<"U+A7C7">>>>, <<"U+A7CA", <<"U+A7C9">>>>,
      <<"U+A7D1", <<"U+A7D0">>>>, <<"U+A7D7", <<"U+A7D6">>>>,
      <<"U+A7D9", <<"U+A7D8">>>>, <<"U+A7F6", <<"U+A7F5">>>>,
      <<"U+AB53", <<"U+A7B3">>>>, <<"U+AB70", <<"U+13A0">>>>,
      <<"U+AB71", <<"U+13A1">>>>, <<"U+AB72", <<"U+13A2">>>>,
      <<"U+AB73", <<"U+13A3">>>>, <<"U+AB74", <<"U+13A4">>>>,
      <<"U+AB75", <<"U+13A5">>>>, <<"U+AB76", <<"U+13A6">>>>,
      <<"U+AB77", <<"U+13A7">>>>, <<"U+AB78", <<"U+13A8">>>>,
      <<"U+AB79", <<"U+13A9">>>>, <<"U+AB7A", <<"U+13AA">>>>,
      <<"U+AB7B", <<"U+13AB">>>>, <<"U+AB7C", <<"U+13AC">>>>,
      <<"U+AB7D", <<"U+13AD">>>>, <<"U+AB7E", <<"U+13AE">>>>,
      <<"U+AB7F", <<"U+13AF">>>>, <<"U+AB80", <<"U+13B0">>>>,
      <<"U+AB81", <<"U+13B1">>>>, <<"U+AB82", <<"U+13B2">>>>,
      <<"U+AB83", <<"U+13B3">>>>, <<"U+AB84", <<"U+13B4">>>>,
      <<"U+AB85", <<"U+13B5">>>>, <<"U+AB86", <<"U+13B6">>>>,
      <<"U+AB87", <<"U+13B7">>>>, <<"U+AB88", <<"U+13B8">>>>,
      <<"U+AB89", <<"U+13B9">>>>, <<"U+AB8A", <<"U+13BA">>>>,
      <<"U+AB8B", <<"U+13BB">>>>, <<"U+AB8C", <<"U+13BC">>>>,
      <<"U+AB8D", <<"U+13BD">>>>, <<"U+AB8E", <<"U+13BE">>>>,
      <<"U+AB8F", <<"U+13BF">>>>, <<"U+AB90", <<"U+13C0">>>>,
      <<"U+AB91", <<"U+13C1">>>>, <<"U+AB92", <<"U+13C2">>>>,
      <<"U+AB93", <<"U+13C3">>>>, <<"U+AB94", <<"U+13C4">>>>,
      <<"U+AB95", <<"U+13C5">>>>, <<"U+AB96", <<"U+13C6">>>>,
      <<"U+AB97", <<"U+13C7">>>>, <<"U+AB98", <<"U+13C8">>>>,
      <<"U+AB99", <<"U+13C9">>>>, <<"U+AB9A", <<"U+13CA">>>>,
      <<"U+AB9B", <<"U+13CB">>>>, <<"U+AB9C", <<"U+13CC">>>>,
      <<"U+AB9D", <<"U+13CD">>>>, <<"U+AB9E", <<"U+13CE">>>>,
      <<"U+AB9F", <<"U+13CF">>>>, <<"U+ABA0", <<"U+13D0">>>>,
      <<"U+ABA1", <<"U+13D1">>>>, <<"U+ABA2", <<"U+13D2">>>>,
      <<"U+ABA3", <<"U+13D3">>>>, <<"U+ABA4", <<"U+13D4">>>>,
      <<"U+ABA5", <<"U+13D5">>>>, <<"U+ABA6", <<"U+13D6">>>>,
      <<"U+ABA7", <<"U+13D7">>>>, <<"U+ABA8", <<"U+13D8">>>>,
      <<"U+ABA9", <<"U+13D9">>>>, <<"U+ABAA", <<"U+13DA">>>>,
      <<"U+ABAB", <<"U+13DB">>>>, <<"U+ABAC", <<"U+13DC">>>>,
      <<"U+ABAD", <<"U+13DD">>>>, <<"U+ABAE", <<"U+13DE">>>>,
      <<"U+ABAF", <<"U+13DF">>>>, <<"U+ABB0", <<"U+13E0">>>>,
      <<"U+ABB1", <<"U+13E1">>>>, <<"U+ABB2", <<"U+13E2">>>>,
      <<"U+ABB3", <<"U+13E3">>>>, <<"U+ABB4", <<"U+13E4">>>>,
      <<"U+ABB5", <<"U+13E5">>>>, <<"U+ABB6", <<"U+13E6">>>>,
      <<"U+ABB7", <<"U+13E7">>>>, <<"U+ABB8", <<"U+13E8">>>>,
      <<"U+ABB9", <<"U+13E9">>>>, <<"U+ABBA", <<"U+13EA">>>>,
      <<"U+ABBB", <<"U+13EB">>>>, <<"U+ABBC", <<"U+13EC">>>>,
      <<"U+ABBD", <<"U+13ED">>>>, <<"U+ABBE", <<"U+13EE">>>>,
      <<"U+ABBF", <<"U+13EF">>>>, <<"U+FB00", <<"F", "F">>>>,
      <<"U+FB01", <<"F", "I">>>>, <<"U+FB02", <<"F", "L">>>>,
      <<"U+FB03", <<"F", "F", "I">>>>, <<"U+FB04", <<"F", "F", "L">>>>,
      <<"U+FB05", <<"S", "T">>>>, <<"U+FB06", <<"S", "T">>>>,
      <<"U+FB13", <<"U+0544", "U+0546">>>>,
      <<"U+FB14", <<"U+0544", "U+0535">>>>,
      <<"U+FB15", <<"U+0544", "U+053B">>>>,
      <<"U+FB16", <<"U+054E", "U+0546">>>>,
      <<"U+FB17", <<"U+0544", "U+053D">>>>, <<"U+FF41", <<"U+FF21">>>>,
      <<"U+FF42", <<"U+FF22">>>>, <<"U+FF43", <<"U+FF23">>>>,
      <<"U+FF44", <<"U+FF24">>>>, <<"U+FF45", <<"U+FF25">>>>,
      <<"U+FF46", <<"U+FF26">>>>, <<"U+FF47", <<"U+FF27">>>>,
      <<"U+FF48", <<"U+FF28">>>>, <<"U+FF49", <<"U+FF29">>>>,
      <<"U+FF4A", <<"U+FF2A">>>>, <<"U+FF4B", <<"U+FF2B">>>>,
      <<"U+FF4C", <<"U+FF2C">>>>, <<"U+FF4D", <<"U+FF2D">>>>,
      <<"U+FF4E", <<"U+FF2E">>>>, <<"U+FF4F", <<"U+FF2F">>>>,
      <<"U+FF50", <<"U+FF30">>>>, <<"U+FF51", <<"U+FF31">>>>,
      <<"U+FF52", <<"U+FF32">>>>, <<"U+FF53", <<"U+FF33">>>>,
      <<"U+FF54", <<"U+FF34">>>>, <<"U+FF55", <<"U+FF35">>>>,
      <<"U+FF56", <<"U+FF36">>>>, <<"U+FF57", <<"U+FF37">>>>,
      <<"U+FF58", <<"U+FF38">>>>, <<"U+FF59", <<"U+FF39">>>>,
      <<"U+FF5A", <<"U+FF3A">>>>, <<"U+10428", <<"U+10400">>>>,
      <<"U+10429", <<"U+10401">>>>, <<"U+1042A", <<"U+10402">>>>,
      <<"U+1042B", <<"U+10403">>>>, <<"U+1042C", <<"U+10404">>>>,
      <<"U+1042D", <<"U+10405">>>>, <<"U+1042E", <<"U+10406">>>>,
      <<"U+1042F", <<"U+10407">>>>, <<"U+10430", <<"U+10408">>>>,
      <<"U+10431", <<"U+10409">>>>, <<"U+10432", <<"U+1040A">>>>,
      <<"U+10433", <<"U+1040B">>>>, <<"U+10434", <<"U+1040C">>>>,
      <<"U+10435", <<"U+1040D">>>>, <<"U+10436", <<"U+1040E">>>>,
      <<"U+10437", <<"U+1040F">>>>, <<"U+10438", <<"U+10410">>>>,
      <<"U+10439", <<"U+10411">>>>, <<"U+1043A", <<"U+10412">>>>,
      <<"U+1043B", <<"U+10413">>>>, <<"U+1043C", <<"U+10414">>>>,
      <<"U+1043D", <<"U+10415">>>>, <<"U+1043E", <<"U+10416">>>>,
      <<"U+1043F", <<"U+10417">>>>, <<"U+10440", <<"U+10418">>>>,
      <<"U+10441", <<"U+10419">>>>, <<"U+10442", <<"U+1041A">>>>,
      <<"U+10443", <<"U+1041B">>>>, <<"U+10444", <<"U+1041C">>>>,
      <<"U+10445", <<"U+1041D">>>>, <<"U+10446", <<"U+1041E">>>>,
      <<"U+10447", <<"U+1041F">>>>, <<"U+10448", <<"U+10420">>>>,
      <<"U+10449", <<"U+10421">>>>, <<"U+1044A", <<"U+10422">>>>,
      <<"U+1044B", <<"U+10423">>>>, <<"U+1044C", <<"U+10424">>>>,
      <<"U+1044D", <<"U+10425">>>>, <<"U+1044E", <<"U+10426">>>>,
      <<"U+1044F", <<"U+10427">>>>, <<"U+104D8", <<"U+104B0">>>>,
      <<"U+104D9", <<"U+104B1">>>>, <<"U+104DA", <<"U+104B2">>>>,
      <<"U+104DB", <<"U+104B3">>>>, <<"U+104DC", <<"U+104B4">>>>,
      <<"U+104DD", <<"U+104B5">>>>, <<"U+104DE", <<"U+104B6">>>>,
      <<"U+104DF", <<"U+104B7">>>>, <<"U+104E0", <<"U+104B8">>>>,
      <<"U+104E1", <<"U+104B9">>>>, <<"U+104E2", <<"U+104BA">>>>,
      <<"U+104E3", <<"U+104BB">>>>, <<"U+104E4", <<"U+104BC">>>>,
      <<"U+104E5", <<"U+104BD">>>>, <<"U+104E6", <<"U+104BE">>>>,
      <<"U+104E7", <<"U+104BF">>>>, <<"U+104E8", <<"U+104C0">>>>,
      <<"U+104E9", <<"U+104C1">>>>, <<"U+104EA", <<"U+104C2">>>>,
      <<"U+104EB", <<"U+104C3">>>>, <<"U+104EC", <<"U+104C4">>>>,
      <<"U+104ED", <<"U+104C5">>>>, <<"U+104EE", <<"U+104C6">>>>,
      <<"U+104EF", <<"U+104C7">>>>, <<"U+104F0", <<"U+104C8">>>>,
      <<"U+104F1", <<"U+104C9">>>>, <<"U+104F2", <<"U+104CA">>>>,
      <<"U+104F3", <<"U+104CB">>>>, <<"U+104F4", <<"U+104CC">>>>,
      <<"U+104F5", <<"U+104CD">>>>, <<"U+104F6", <<"U+104CE">>>>,
      <<"U+104F7", <<"U+104CF">>>>, <<"U+104F8", <<"U+104D0">>>>,
      <<"U+104F9", <<"U+104D1">>>>, <<"U+104FA", <<"U+104D2">>>>,
      <<"U+104FB", <<"U+104D3">>>>, <<"U+10597", <<"U+10570">>>>,
      <<"U+10598", <<"U+10571">>>>, <<"U+10599", <<"U+10572">>>>,
      <<"U+1059A", <<"U+10573">>>>, <<"U+1059B", <<"U+10574">>>>,
      <<"U+1059C", <<"U+10575">>>>, <<"U+1059D", <<"U+10576">>>>,
      <<"U+1059E", <<"U+10577">>>>, <<"U+1059F", <<"U+10578">>>>,
      <<"U+105A0", <<"U+10579">>>>, <<"U+105A1", <<"U+1057A">>>>,
      <<"U+105A3", <<"U+1057C">>>>, <<"U+105A4", <<"U+1057D">>>>,
      <<"U+105A5", <<"U+1057E">>>>, <<"U+105A6", <<"U+1057F">>>>,
      <<"U+105A7", <<"U+10580">>>>, <<"U+105A8", <<"U+10581">>>>,
      <<"U+105A9", <<"U+10582">>>>, <<"U+105AA", <<"U+10583">>>>,
      <<"U+105AB", <<"U+10584">>>>, <<"U+105AC", <<"U+10585">>>>,
      <<"U+105AD", <<"U+10586">>>>, <<"U+105AE", <<"U+10587">>>>,
      <<"U+105AF", <<"U+10588">>>>, <<"U+105B0", <<"U+10589">>>>,
      <<"U+105B1", <<"U+1058A">>>>, <<"U+105B3", <<"U+1058C">>>>,
      <<"U+105B4", <<"U+1058D">>>>, <<"U+105B5", <<"U+1058E">>>>,
      <<"U+105B6", <<"U+1058F">>>>, <<"U+105B7", <<"U+10590">>>>,
      <<"U+105B8", <<"U+10591">>>>, <<"U+105B9", <<"U+10592">>>>,
      <<"U+105BB", <<"U+10594">>>>, <<"U+105BC", <<"U+10595">>>>,
      <<"U+10CC0", <<"U+10C80">>>>, <<"U+10CC1", <<"U+10C81">>>>,
      <<"U+10CC2", <<"U+10C82">>>>, <<"U+10CC3", <<"U+10C83">>>>,
      <<"U+10CC4", <<"U+10C84">>>>, <<"U+10CC5", <<"U+10C85">>>>,
      <<"U+10CC6", <<"U+10C86">>>>, <<"U+10CC7", <<"U+10C87">>>>,
      <<"U+10CC8", <<"U+10C88">>>>, <<"U+10CC9", <<"U+10C89">>>>,
      <<"U+10CCA", <<"U+10C8A">>>>, <<"U+10CCB", <<"U+10C8B">>>>,
      <<"U+10CCC", <<"U+10C8C">>>>, <<"U+10CCD", <<"U+10C8D">>>>,
      <<"U+10CCE", <<"U+10C8E">>>>, <<"U+10CCF", <<"U+10C8F">>>>,
      <<"U+10CD0", <<"U+10C90">>>>, <<"U+10CD1", <<"U+10C91">>>>,
      <<"U+10CD2", <<"U+10C92">>>>, <<"U+10CD3", <<"U+10C93">>>>,
      <<"U+10CD4", <<"U+10C94">>>>, <<"U+10CD5", <<"U+10C95">>>>,
      <<"U+10CD6", <<"U+10C96">>>>, <<"U+10CD7", <<"U+10C97">>>>,
      <<"U+10CD8", <<"U+10C98">>>>, <<"U+10CD9", <<"U+10C99">>>>,
      <<"U+10CDA", <<"U+10C9A">>>>, <<"U+10CDB", <<"U+10C9B">>>>,
      <<"U+10CDC", <<"U+10C9C">>>>, <<"U+10CDD", <<"U+10C9D">>>>,
      <<"U+10CDE", <<"U+10C9E">>>>, <<"U+10CDF", <<"U+10C9F">>>>,
      <<"U+10CE0", <<"U+10CA0">>>>, <<"U+10CE1", <<"U+10CA1">>>>,
      <<"U+10CE2", <<"U+10CA2">>>>, <<"U+10CE3", <<"U+10CA3">>>>,
      <<"U+10CE4", <<"U+10CA4">>>>, <<"U+10CE5", <<"U+10CA5">>>>,
      <<"U+10CE6", <<"U+10CA6">>>>, <<"U+10CE7", <<"U+10CA7">>>>,
      <<"U+10CE8", <<"U+10CA8">>>>, <<"U+10CE9", <<"U+10CA9">>>>,
      <<"U+10CEA", <<"U+10CAA">>>>, <<"U+10CEB", <<"U+10CAB">>>>,
      <<"U+10CEC", <<"U+10CAC">>>>, <<"U+10CED", <<"U+10CAD">>>>,
      <<"U+10CEE", <<"U+10CAE">>>>, <<"U+10CEF", <<"U+10CAF">>>>,
      <<"U+10CF0", <<"U+10CB0">>>>, <<"U+10CF1", <<"U+10CB1">>>>,
      <<"U+10CF2", <<"U+10CB2">>>>, <<"U+118C0", <<"U+118A0">>>>,
      <<"U+118C1", <<"U+118A1">>>>, <<"U+118C2", <<"U+118A2">>>>,
      <<"U+118C3", <<"U+118A3">>>>, <<"U+118C4", <<"U+118A4">>>>,
      <<"U+118C5", <<"U+118A5">>>>, <<"U+118C6", <<"U+118A6">>>>,
      <<"U+118C7", <<"U+118A7">>>>, <<"U+118C8", <<"U+118A8">>>>,
      <<"U+118C9", <<"U+118A9">>>>, <<"U+118CA", <<"U+118AA">>>>,
      <<"U+118CB", <<"U+118AB">>>>, <<"U+118CC", <<"U+118AC">>>>,
      <<"U+118CD", <<"U+118AD">>>>, <<"U+118CE", <<"U+118AE">>>>,
      <<"U+118CF", <<"U+118AF">>>>, <<"U+118D0", <<"U+118B0">>>>,
      <<"U+118D1", <<"U+118B1">>>>, <<"U+118D2", <<"U+118B2">>>>,
      <<"U+118D3", <<"U+118B3">>>>, <<"U+118D4", <<"U+118B4">>>>,
      <<"U+118D5", <<"U+118B5">>>>, <<"U+118D6", <<"U+118B6">>>>,
      <<"U+118D7", <<"U+118B7">>>>, <<"U+118D8", <<"U+118B8">>>>,
      <<"U+118D9", <<"U+118B9">>>>, <<"U+118DA", <<"U+118BA">>>>,
      <<"U+118DB", <<"U+118BB">>>>, <<"U+118DC", <<"U+118BC">>>>,
      <<"U+118DD", <<"U+118BD">>>>, <<"U+118DE", <<"U+118BE">>>>,
      <<"U+118DF", <<"U+118BF">>>>, <<"U+16E60", <<"U+16E40">>>>,
      <<"U+16E61", <<"U+16E41">>>>, <<"U+16E62", <<"U+16E42">>>>,
      <<"U+16E63", <<"U+16E43">>>>, <<"U+16E64", <<"U+16E44">>>>,
      <<"U+16E65", <<"U+16E45">>>>, <<"U+16E66", <<"U+16E46">>>>,
      <<"U+16E67", <<"U+16E47">>>>, <<"U+16E68", <<"U+16E48">>>>,
      <<"U+16E69", <<"U+16E49">>>>, <<"U+16E6A", <<"U+16E4A">>>>,
      <<"U+16E6B", <<"U+16E4B">>>>, <<"U+16E6C", <<"U+16E4C">>>>,
      <<"U+16E6D", <<"U+16E4D">>>>, <<"U+16E6E", <<"U+16E4E">>>>,
      <<"U+16E6F", <<"U+16E4F">>>>, <<"U+16E70", <<"U+16E50">>>>,
      <<"U+16E71", <<"U+16E51">>>>, <<"U+16E72", <<"U+16E52">>>>,
      <<"U+16E73", <<"U+16E53">>>>, <<"U+16E74", <<"U+16E54">>>>,
      <<"U+16E75", <<"U+16E55">>>>, <<"U+16E76", <<"U+16E56">>>>,
      <<"U+16E77", <<"U+16E57">>>>, <<"U+16E78", <<"U+16E58">>>>,
      <<"U+16E79", <<"U+16E59">>>>, <<"U+16E7A", <<"U+16E5A">>>>,
      <<"U+16E7B", <<"U+16E5B">>>>, <<"U+16E7C", <<"U+16E5C">>>>,
      <<"U+16E7D", <<"U+16E5D">>>>, <<"U+16E7E", <<"U+16E5E">>>>,
      <<"U+16E7F", <<"U+16E5F">>>>, <<"U+1E922", <<"U+1E900">>>>,
      <<"U+1E923", <<"U+1E901">>>>, <<"U+1E924", <<"U+1E902">>>>,
      <<"U+1E925", <<"U+1E903">>>>, <<"U+1E926", <<"U+1E904">>>>,
      <<"U+1E927", <<"U+1E905">>>>, <<"U+1E928", <<"U+1E906">>>>,
      <<"U+1E929", <<"U+1E907">>>>, <<"U+1E92A", <<"U+1E908">>>>,
      <<"U+1E92B", <<"U+1E909">>>>, <<"U+1E92C", <<"U+1E90A">>>>,
      <<"U+1E92D", <<"U+1E90B">>>>, <<"U+1E92E", <<"U+1E90C">>>>,
      <<"U+1E92F", <<"U+1E90D">>>>, <<"U+1E930", <<"U+1E90E">>>>,
      <<"U+1E931", <<"U+1E90F">>>>, <<"U+1E932", <<"U+1E910">>>>,
      <<"U+1E933", <<"U+1E911">>>>, <<"U+1E934", <<"U+1E912">>>>,
      <<"U+1E935", <<"U+1E913">>>>, <<"U+1E936", <<"U+1E914">>>>,
      <<"U+1E937", <<"U+1E915">>>>, <<"U+1E938", <<"U+1E916">>>>,
      <<"U+1E939", <<"U+1E917">>>>, <<"U+1E93A", <<"U+1E918">>>>,
      <<"U+1E93B", <<"U+1E919">>>>, <<"U+1E93C", <<"U+1E91A">>>>,
      <<"U+1E93D", <<"U+1E91B">>>>, <<"U+1E93E", <<"U+1E91C">>>>,
      <<"U+1E93F", <<"U+1E91D">>>>, <<"U+1E940", <<"U+1E91E">>>>,
      <<"U+1E941", <<"U+1E91F">>>>, <<"U+1E942", <<"U+1E920">>>>,
      <<"U+1E943", <<"U+1E921">>>>>>

\* the characters str.upper changes
Cased == {UpperPairs[i][1] : i \in 1..Len(UpperPairs)}

UpperOf ==
    [c \in Cased |->
        UpperPairs[CHOOSE i \in 1..Len(UpperPairs) : UpperPairs[i][1] = c][2]]

\* str.upper on one character
UpperChar(c) == IF c \in Cased THEN UpperOf[c] ELSE <<c>>

\* str.upper
RECURSIVE upper(_)
upper(str) == IF str = <<>> THEN <<>> ELSE UpperChar(str[1]) \o upper(Tail(str))

\* str.lower on one character (strptime matches with re.IGNORECASE)
LowerChar(c) == IF c \in UpperLetters THEN LowerOf[c] ELSE c

AsciiDigitVal ==
    [c \in Digits |->
        CASE c = "0" -> 0 [] c = "1" -> 1 [] c = "2" -> 2 [] c = "3" -> 3
          [] c = "4" -> 4 [] c = "5" -> 5 [] c = "6" -> 6 [] c = "7" -> 7
          [] c = "8" -> 8 [] c = "9" -> 9]

UnicodeDigitVal ==
    [c \in UnicodeDigits |->
        CHOOSE v \in 0..9 :
            \E b \in 1..Len(UnicodeDigitBlocks) : UnicodeDigitBlocks[b][v + 1] = c]

\* int() of one decimal digit
DigitVal(c) == IF c \in Digits THEN AsciiDigitVal[c] ELSE UnicodeDigitVal[c]

\* s[i:j] of Python in 1-based, inclusive positions; empty when j < i
Slice(str, i, j) == IF j < i THEN <<>> ELSE SubSeq(str, i, j)

\* the first position at or after i that holds no character of the class cls
RECURSIVE SkipWhile(_, _, _)
SkipWhile(str, i, cls) ==
    IF i <= Len(str) /\ str[i] \in cls THEN SkipWhile(str, i + 1, cls) ELSE i

\* the last position at or before j that holds no whitespace (0 if none)
RECURSIVE SkipBackSpace(_, _)
SkipBackSpace(str, j) ==
    IF j >= 1 /\ str[j] \in Whitespace THEN SkipBackSpace(str, j - 1) ELSE j

\* str.strip()
strip(str) == Slice(str, SkipWhile(str, 1, Whitespace), SkipBackSpace(str, Len(str)))

\* the last position at or before j that holds no "\n" (0 if none)
RECURSIVE SkipBackNewline(_, _)
SkipBackNewline(str, j) ==
    IF j >= 1 /\ str[j] = "\n" THEN SkipBackNewline(str, j - 1) ELSE j

\* str.rstrip("\n")
rstrip_newline(str) == Slice(str, 1, SkipBackNewline(str, Len(str)))

\* the first position at or after i that "." does not match: a newline, or
\* the end of the text
RECURSIVE SkipDots(_, _)
SkipDots(str, i) ==
    IF i <= Len(str) /\ IsDot(str[i]) THEN SkipDots(str, i + 1) ELSE i

\* "$" of the re module at position q: the end of the text, or the newline
\* that ends the text
AtDollar(str, q) == q = Len(str) + 1 \/ (q = Len(str) /\ str[q] = "\n")

\* int() of a run of digits, a leading blank allowed (the " [1-9]" day)
RECURSIVE IntOf(_)
IntOf(str) ==
    IF str = <<>> THEN 0
    ELSE IF str[1] = " " THEN IntOf(Tail(str))
    ELSE IntOf(Slice(str, 1, Len(str) - 1)) * 10 + DigitVal(str[Len(str)])

-----------------------------------------------------------------------------
(* datetime.strptime, as _strptime computes it: the format is compiled to a *)
(* regular expression, the expression is matched by backtracking from the   *)
(* start of the text, the match must reach the end of the text, and the     *)
(* fields must make a date and a time that exist.                           *)

\* [0-9] and [1-9]: the ASCII digits; \d: every decimal digit
D19 == Digits \ {"0"}

\* The alternatives of each directive's group, in the order _strptime lists
\* them; an alternative is the sequence of its character classes.
DirectiveAlts(d) ==
    LET D09 == Digits
        Dd == DecimalDigits
    IN  CASE d = "Y" -> << <<Dd, Dd, Dd, Dd>> >>
          [] d = "m" -> << <<{"1"}, {"0", "1", "2"}>>, <<{"0"}, D19>>, <<D19>> >>
          [] d = "d" -> << <<{"3"}, {"0", "1"}>>, <<{"1", "2"}, Dd>>, <<{"0"}, D19>>,
                           <<D19>>, <<{" "}, D19>> >>
          [] d = "H" -> << <<{"2"}, {"0", "1", "2", "3"}>>, <<{"0", "1"}, Dd>>, <<Dd>> >>
          [] d = "M" -> << <<{"0", "1", "2", "3", "4", "5"}, Dd>>, <<Dd>> >>
          [] d = "S" -> << <<{"6"}, {"0", "1"}>>, <<{"0", "1", "2", "3", "4", "5"}, Dd>>,
                           <<Dd>> >>
          [] d = "f" -> << <<D09, D09, D09, D09, D09, D09>>, <<D09, D09, D09, D09, D09>>,
                           <<D09, D09, D09, D09>>, <<D09, D09, D09>>, <<D09, D09>>,
                           <<D09>> >>

Directives == {"Y", "m", "d", "H", "M", "S", "f"}

\* A format is the sequence of its parts: "%Y" ... "%f" are directives, " "
\* is white space (compiled to \s+), any other part is a literal character.
IsDirective(part) == part \in {"%Y", "%m", "%d", "%H", "%M", "%S", "%f"}

DirectiveOf(part) ==
    CASE part = "%Y" -> "Y" [] part = "%m" -> "m" [] part = "%d" -> "d"
      [] part = "%H" -> "H" [] part = "%M" -> "M" [] part = "%S" -> "S"
      [] part = "%f" -> "f"

\* a variant without the two formats that read a fraction
DatetimeFormatsNoFraction ==
    << <<"%Y", "-", "%m", "-", "%d", " ", "%H", ":", "%M", ":", "%S">>,
       <<"%Y", "-", "%m", "-", "%d", "T", "%H", ":", "%M", ":", "%S">> >>

DATETIME_FORMATS ==
    << <<"%Y", "-", "%m", "-", "%d", " ", "%H", ":", "%M", ":", "%S">>,
       <<"%Y", "-", "%m", "-", "%d", " ", "%H", ":", "%M", ":", "%S", ",", "%f">>,
       <<"%Y", "-", "%m", "-", "%d", "T", "%H", ":", "%M", ":", "%S">>,
       <<"%Y", "-", "%m", "-", "%d", "T", "%H", ":", "%M", ":", "%S", ".", "%f">> >>

NoGroups == [g \in Directives |-> <<>>]

NoMatch == [ok |-> FALSE, end |-> 0, groups |-> NoGroups]

\* whether the alternative alt matches the text at position i
AltMatches(str, i, alt) ==
    /\ i + Len(alt) - 1 <= Len(str)
    /\ \A k \in 1..Len(alt) : str[i + k - 1] \in alt[k]

\* the a-th alternative of the directive that the part is
Alt(part, a) == DirectiveAlts(DirectiveOf(part))[a]

NumAlts(part) == Len(DirectiveAlts(DirectiveOf(part)))

\* backtracking: the match that continues from here, or else the next try
OrElse(continued, nextTry) == IF continued.ok THEN continued ELSE nextTry

\* re.match of the compiled format fmt from part j on, at position i of the
\* text: the first match in the backtracking order, or NoMatch.  a counts the
\* tries at part j: the a-th alternative of a directive, in the order listed;
\* for white space (\s+, greedy) the whole run first, then one less each try.
RECURSIVE ReMatch(_, _, _, _, _, _)
ReMatch(str, i, fmt, j, groups, a) ==
    IF j > Len(fmt) THEN [ok |-> TRUE, end |-> i, groups |-> groups]
    ELSE IF IsDirective(fmt[j])
    THEN IF a > NumAlts(fmt[j]) THEN NoMatch
         ELSE IF AltMatches(str, i, Alt(fmt[j], a))
         THEN OrElse(ReMatch(str, i + Len(Alt(fmt[j], a)), fmt, j + 1,
                        [groups EXCEPT ![DirectiveOf(fmt[j])] =
                            Slice(str, i, i + Len(Alt(fmt[j], a)) - 1)], 1),
                     ReMatch(str, i, fmt, j, groups, a + 1))
         ELSE ReMatch(str, i, fmt, j, groups, a + 1)
    ELSE IF fmt[j] = " "
    THEN IF SkipWhile(str, i, Whitespace) - i - a + 1 < 1 THEN NoMatch
         ELSE OrElse(ReMatch(str, SkipWhile(str, i, Whitespace) - a + 1, fmt,
                             j + 1, groups, 1),
                     ReMatch(str, i, fmt, j, groups, a + 1))
    ELSE IF i <= Len(str) /\ LowerChar(str[i]) = LowerChar(fmt[j])
    THEN ReMatch(str, i + 1, fmt, j + 1, groups, 1)
    ELSE NoMatch

IsLeap(year) == (year % 4 = 0) /\ ((year % 100 # 0) \/ (year % 400 = 0))

DaysInMonth(year, month) ==
    IF month = 2 THEN (IF IsLeap(year) THEN 29 ELSE 28)
    ELSE IF month \in {4, 6, 9, 11} THEN 30 ELSE 31

\* the fraction "s += '0' * (6 - len(s))" as microseconds
RECURSIVE PadMicro(_)
PadMicro(frac) ==
    IF Len(frac) >= 6 THEN IntOf(frac) ELSE PadMicro(frac \o <<"0">>)

ValueError == [raises |-> TRUE, value |-> None]

Returns(v) == [raises |-> FALSE, value |-> v]

\* the datetime of the fields, or ValueError when no such date or time exists
MakeDateTime(year, month, day, hour, minute, second, fraction) ==
    IF year < 1 \/ day > DaysInMonth(year, month) \/ second > 59
    THEN ValueError
    ELSE Returns(<<year, month, day, hour, minute, second, fraction>>)

\* the fields of the groups the match captured
FromGroups(g) ==
    MakeDateTime(IntOf(g["Y"]), IntOf(g["m"]), IntOf(g["d"]), IntOf(g["H"]),
                 IntOf(g["M"]), IntOf(g["S"]),
                 IF g["f"] = <<>> THEN 0 ELSE PadMicro(g["f"]))

\* no match, or "unconverted data remains": ValueError
CheckFound(found, n) ==
    IF ~found.ok THEN ValueError
    ELSE IF found.end # n + 1 THEN ValueError
    ELSE FromGroups(found.groups)

\* datetime.strptime(str, fmt): the datetime, or ValueError raised
strptime(str, fmt) == CheckFound(ReMatch(str, 1, fmt, 1, NoGroups, 1), Len(str))

\* s.split(",")[0]
RECURSIVE BeforeComma(_)
BeforeComma(str) ==
    IF str = <<>> \/ str[1] = "," THEN <<>>
    ELSE <<str[1]>> \o BeforeComma(Tail(str))

HasComma(str) == "," \in {str[i] : i \in 1..Len(str)}

\* "return datetime.strptime(s, fmt)", or "except ValueError: continue"
ReturnOrContinue(r, continued) == IF r.raises THEN continued ELSE r.value

\* the loop of try_parse_dt over DATETIME_FORMATS from the k-th format on:
\* the first format that parses, or None when the loop ends
RECURSIVE TryFormats(_, _)
TryFormats(str, k) ==
    IF k > Len(DATETIME_FORMATS) THEN None
    ELSE ReturnOrContinue(strptime(str, DATETIME_FORMATS[k]), TryFormats(str, k + 1))

\* a variant with no try ... except around the last resort
ExceptReraise(r) == r

\* "except Exception: pass", then "return None"
ExceptPass(r) == IF r.raises THEN Returns(None) ELSE r

\* the last resort of try_parse_dt
LastResort(str) ==
    IF HasComma(str)
    THEN ExceptPass(strptime(BeforeComma(str), DATETIME_FORMATS[1]))
    ELSE Returns(None)

\* the loop's datetime if it returned one, else the last resort
LoopThenLastResort(first, str) ==
    IF first # None THEN Returns(first) ELSE LastResort(str)

try_parse_dt(str) == LoopThenLastResort(TryFormats(str, 1), str)

-----------------------------------------------------------------------------
(* The two line patterns and parse_line *)

NoGroupsMatch == [ok |-> FALSE, ts |-> None, level |-> None, msg |-> None]

\* \s*(?P<level>[A-Z]+)\s*:\s*(?P<msg>.*)$ from position p on, after the
\* timestamp text ts and its "]".  Each greedy run is taken whole: giving
\* back a character of \s* or of .* never brings the match to "$", which
\* is at the end of the text or at the newline that ends it.
BracketTail(str, ts, p) ==
    LET p1 == SkipWhile(str, p, Whitespace)
        p2 == SkipWhile(str, p1, UpperLetters)
        p3 == SkipWhile(str, p2, Whitespace)
        p4 == SkipWhile(str, p3 + 1, Whitespace)
        p5 == SkipDots(str, p4)
    IN  IF /\ p2 > p1
           /\ p3 <= Len(str)
           /\ str[p3] = ":"
           /\ AtDollar(str, p5)
        THEN [ok |-> TRUE, ts |-> ts, level |-> Slice(str, p1, p2 - 1),
              msg |-> Slice(str, p4, p5 - 1)]
        ELSE NoGroupsMatch

\* (?P<ts>.+?)\] and the rest: the lazy group takes k characters, and one
\* more each time the rest of the pattern does not match after it
RECURSIVE BracketFrom(_, _)
BracketFrom(str, k) ==
    IF k + 2 > Len(str) \/ ~IsDot(str[k + 1]) THEN NoGroupsMatch
    ELSE LET tail == IF str[k + 2] = "]"
                     THEN BracketTail(str, Slice(str, 2, k + 1), k + 3)
                     ELSE NoGroupsMatch
         IN  IF tail.ok THEN tail ELSE BracketFrom(str, k + 1)

\* PATTERN_BRACKET.match(str)
PATTERN_BRACKET(str) ==
    IF Len(str) >= 1 /\ str[1] = "[" THEN BracketFrom(str, 1) ELSE NoGroupsMatch

\* \d{4}-\d{2}-\d{2}[ T]\d{2}:\d{2}:\d{2}
StampShape ==
    <<DecimalDigits, DecimalDigits, DecimalDigits, DecimalDigits, {"-"}, DecimalDigits, DecimalDigits, {"-"}, DecimalDigits, DecimalDigits, {" ", "T"},
      DecimalDigits, DecimalDigits, {":"}, DecimalDigits, DecimalDigits, {":"}, DecimalDigits, DecimalDigits>>

\* \s+(?P<level>[A-Z]+)\s+(?P<msg>.*)$ from position p on, after the
\* timestamp text ts; each greedy run is taken whole, as in BracketTail
SpaceTail(str, ts, p) ==
    LET p1 == SkipWhile(str, p, Whitespace)
        p2 == SkipWhile(str, p1, UpperLetters)
        p3 == SkipWhile(str, p2, Whitespace)
        p4 == SkipDots(str, p3)
    IN  IF /\ p1 > p
           /\ p2 > p1
           /\ p3 > p2
           /\ AtDollar(str, p4)
        THEN [ok |-> TRUE, ts |-> ts, level |-> Slice(str, p1, p2 - 1),
              msg |-> Slice(str, p3, p4 - 1)]
        ELSE NoGroupsMatch

\* (?:[,\.]\d{1,6})? and the rest: the fraction takes n digits, then fewer
\* (greedy), and is left out when the rest matches with none of them
RECURSIVE SpaceFraction(_, _)
SpaceFraction(str, n) ==
    LET q == Len(StampShape)
    IN  IF n < 1 THEN SpaceTail(str, Slice(str, 1, q), q + 1)
        ELSE LET tail == SpaceTail(str, Slice(str, 1, q + 1 + n), q + 2 + n)
             IN  IF tail.ok THEN tail ELSE SpaceFraction(str, n - 1)

Min(a, b) == IF a <= b THEN a ELSE b

\* PATTERN_SPACE.match(str)
PATTERN_SPACE(str) ==
    LET q == Len(StampShape)
    IN  IF ~AltMatches(str, 1, StampShape) THEN NoGroupsMatch
        ELSE IF q + 1 <= Len(str) /\ str[q + 1] \in {",", "."}
             THEN SpaceFraction(str, Min(SkipWhile(str, q + 2, DecimalDigits) - (q + 2), 6))
        ELSE SpaceTail(str, Slice(str, 1, q), q + 1)

\* the loop of parse_line over PATTERNS = [PATTERN_BRACKET, PATTERN_SPACE]:
\* the first pattern that matches
PATTERNS(str) == OrElse(PATTERN_BRACKET(str), PATTERN_SPACE(str))

\* m.group("ts").strip(): the timestamp text handed to try_parse_dt
TsRawOf(m) == IF m.ok THEN strip(m.ts) ELSE None

ts_raw(ln) == TsRawOf(PATTERNS(rstrip_newline(ln)))

\* the body of parse_line once the patterns were tried
ParseMatch(m) ==
    IF m.ok
    THEN [ts |-> try_parse_dt(strip(m.ts)).value,
          level |-> strip(m.level),
          msg |-> strip(m.msg)]
    ELSE [ts |-> None, level |-> None, msg |-> None]

parse_line(ln) == ParseMatch(PATTERNS(rstrip_newline(ln)))

-----------------------------------------------------------------------------
(* main: the aggregation after the pass over the file *)

\* ts < other of two datetimes
RECURSIVE DtLessFrom(_, _, _)
DtLessFrom(a, b, k) ==
    IF k > Len(a) THEN FALSE
    ELSE IF a[k] # b[k] THEN a[k] < b[k]
    ELSE DtLessFrom(a, b, k + 1)

DtLess(a, b) == DtLessFrom(a, b, 1)

\* set(l.upper() for l in args.levels)
allowed == {upper(levels[i]) : i \in 1..Len(levels)}

\* a variant that counts per level and message
RECURSIVE CounterByLevel(_)
CounterByLevel(rs) ==
    IF rs = <<>> THEN <<>>
    ELSE LET before == CounterByLevel(Slice(rs, 1, Len(rs) - 1))
             last == rs[Len(rs)]
         IN  IF \E i \in 1..Len(before) :
                   before[i].msg = last.msg /\ before[i].level = last.level
             THEN [i \in 1..Len(before) |->
                      IF before[i].msg = last.msg /\ before[i].level = last.level
                      THEN [before[i] EXCEPT !.cnt = @ + 1]
                      ELSE before[i]]
             ELSE Append(before, [msg |-> last.msg, level |-> last.level, cnt |-> 1])

\* Counter(msg for _, _, msg in rows): the messages in the order they are
\* first met (a dict keeps insertion order), each with its count
RECURSIVE Counter(_)
Counter(rs) ==
    IF rs = <<>> THEN <<>>
    ELSE LET before == Counter(Slice(rs, 1, Len(rs) - 1))
             msg == rs[Len(rs)].msg
         IN  IF \E i \in 1..Len(before) : before[i].msg = msg
             THEN [i \in 1..Len(before) |->
                      IF before[i].msg = msg
                      THEN [before[i] EXCEPT !.cnt = @ + 1]
                      ELSE before[i]]
             ELSE Append(before, [msg |-> msg, cnt |-> 1])

\* a variant with the comparison of first_seen turned round
RECURSIVE FirstSeenGreater(_, _, _)
FirstSeenGreater(rs, k, msg) ==
    IF k = 0 THEN None
    ELSE LET prev == FirstSeenGreater(rs, k - 1, msg)
             ts == rs[k].ts
         IN  IF rs[k].msg # msg \/ ts = None THEN prev
             ELSE IF prev = None THEN ts
             ELSE IF DtLess(prev, ts) THEN ts
             ELSE prev

\* first_seen[msg] after the loop over rows has handled the first k rows
RECURSIVE first_seen(_, _, _)
first_seen(rs, k, msg) ==
    IF k = 0 THEN None
    ELSE LET prev == first_seen(rs, k - 1, msg)
             ts == rs[k].ts
         IN  IF rs[k].msg # msg \/ ts = None THEN prev
             ELSE IF prev = None THEN ts
             ELSE IF DtLess(ts, prev) THEN ts
             ELSE prev

\* last_seen[msg] after the loop over rows has handled the first k rows
RECURSIVE last_seen(_, _, _)
last_seen(rs, k, msg) ==
    IF k = 0 THEN None
    ELSE LET prev == last_seen(rs, k - 1, msg)
             ts == rs[k].ts
         IN  IF rs[k].msg # msg \/ ts = None THEN prev
             ELSE IF prev = None THEN ts
             ELSE IF DtLess(prev, ts) THEN ts
             ELSE prev

\* data: one entry per message, in the order of counts.items()
Data(rs) ==
    LET counts == Counter(rs)
    IN  [i \in 1..Len(counts) |->
            [Message |-> counts[i].msg,
             Count |-> counts[i].cnt,
             First_Seen |-> first_seen(rs, Len(rs), counts[i].msg),
             Last_Seen |-> last_seen(rs, Len(rs), counts[i].msg)]]

\* a variant with Last Seen ascending
SortsBeforeEarlierLast(x, y) ==
    \/ x.Count > y.Count
    \/ /\ x.Count = y.Count
       /\ x.Last_Seen # None
       /\ (y.Last_Seen = None \/ DtLess(x.Last_Seen, y.Last_Seen))

\* the order of sort_values(by=["Count", "Last Seen"], ascending=[False,
\* False]): x comes before y when its count is larger or, the counts being
\* equal, its Last Seen is later; a missing Last Seen comes last
\* (na_position="last")
SortsBefore(x, y) ==
    \/ x.Count > y.Count
    \/ /\ x.Count = y.Count
       /\ x.Last_Seen # None
       /\ (y.Last_Seen = None \/ DtLess(y.Last_Seen, x.Last_Seen))

\* the place of x in the sorted sequence sorted: before the first entry it
\* sorts before
RECURSIVE InsertPlace(_, _, _)
InsertPlace(sorted, x, i) ==
    IF i > Len(sorted) \/ SortsBefore(x, sorted[i]) THEN i
    ELSE InsertPlace(sorted, x, i + 1)

\* sort_values on several keys is a stable sort: entries the order does not
\* tell apart keep the order they have in the frame
RECURSIVE sort_values(_)
sort_values(frame) ==
    IF frame = <<>> THEN <<>>
    ELSE LET sorted == sort_values(Slice(frame, 1, Len(frame) - 1))
             x == frame[Len(frame)]
             i == InsertPlace(sorted, x, 1)
         IN  Slice(sorted, 1, i - 1) \o <<x>> \o Slice(sorted, i, Len(sorted))

\* min(..., default=None) and max(..., default=None) over the defined values
MinOf(values) ==
    IF values = {} THEN None
    ELSE CHOOSE v \in values : \A w \in values : ~DtLess(w, v)

MaxOf(values) ==
    IF values = {} THEN None
    ELSE CHOOSE v \in values : \A w \in values : ~DtLess(v, w)

\* a variant that takes the greatest First Seen
EarliestByMax(rs) ==
    MaxOf({first_seen(rs, Len(rs), rs[i].msg) : i \in 1..Len(rs)} \ {None})

\* min((t for t in first_seen.values() if t is not None), default=None)
earliest(rs) ==
    MinOf({first_seen(rs, Len(rs), rs[i].msg) : i \in 1..Len(rs)} \ {None})

\* max((t for t in last_seen.values() if t is not None), default=None)
latest(rs) ==
    MaxOf({last_seen(rs, Len(rs), rs[i].msg) : i \in 1..Len(rs)} \ {None})

DigitChar(n) == CHOOSE c \in Digits : DigitVal(c) = n

\* the decimal digits of n, w of them, zeros in front
RECURSIVE ZeroPad(_, _)
ZeroPad(n, w) ==
    IF w = 0 THEN <<>> ELSE ZeroPad(n \div 10, w - 1) \o <<DigitChar(n % 10)>>

\* datetime.isoformat(sep=" "): the microseconds are written when not zero
isoformat(d) ==
    ZeroPad(d[1], 4) \o <<"-">> \o ZeroPad(d[2], 2) \o <<"-">> \o ZeroPad(d[3], 2)
      \o <<" ">> \o ZeroPad(d[4], 2) \o <<":">> \o ZeroPad(d[5], 2) \o <<":">>
      \o ZeroPad(d[6], 2)
      \o (IF d[7] = 0 THEN <<>> ELSE <<".">> \o ZeroPad(d[7], 6))

NA == <<"N", "/", "A">>

\* the characters in runs of consecutive code points, each run with the
\* code point of its first character: U+0009 ... U+000D, U+001C ... U+00FF
\* and, above U+00FF, the characters that are white space, decimal digits
\* or changed or made by str.upper
CodePointRuns ==
    << <<9, <<"\t", "\n", "", "\f", "\r">>>>,
       <<28, <<"", "", "", "", " ", "!", "\"", "#", "$", "%", "&", "'",
               "(", ")", "*", "+", ",", "-", ".", "/", "0", "1", "2", "3",
               "4", "5", "6", "7", "8", "9", ":", ";", "<", "=", ">", "?",
               "@", "A", "B", "C", "D", "E", "F", "G", "H", "I", "J", "K",
               "L", "M", "N", "O", "P", "Q", "R", "S", "T", "U", "V", "W",
               "X", "Y", "Z", "[", "\\", "]", "^", "_", "U+0060", "a", "b",
               "c", "d", "e", "f", "g", "h", "i", "j", "k", "l", "m", "n",
               "o", "p", "q", "r", "s", "t", "u", "v", "w", "x", "y", "z",
               "{", "|", "}", "~", "", "", "", "", "", "", "", "",
               "", "", "", "", "", "", "", "", "", "", "", "",
               "", "", "", "", "", "", "", "", "", "", "", "",
               "", " ", "¡", "¢", "£", "¤", "¥", "¦", "§", "¨", "©", "ª",
               "«", "¬", "­", "®", "¯", "°", "±", "²", "³", "´", "µ", "¶",
               "·", "¸", "¹", "º", "»", "¼", "½", "¾", "¿", "À", "Á", "Â",
               "Ã", "Ä", "Å", "Æ", "Ç", "È", "É", "Ê", "Ë", "Ì", "Í", "Î",
               "Ï", "Ð", "Ñ", "Ò", "Ó", "Ô", "Õ", "Ö", "×", "Ø", "Ù", "Ú",
               "Û", "Ü", "Ý", "Þ", "ß", "à", "á", "â", "ã", "ä", "å", "æ",
               "ç", "è", "é", "ê", "ë", "ì", "í", "î", "ï", "ð", "ñ", "ò",
               "ó", "ô", "õ", "ö", "÷", "ø", "ù", "ú", "û", "ü", "ý", "þ",
               "ÿ", "U+0100", "U+0101", "U+0102", "U+0103", "U+0104",
               "U+0105", "U+0106", "U+0107", "U+0108", "U+0109", "U+010A",
               "U+010B", "U+010C", "U+010D", "U+010E", "U+010F", "U+0110",
               "U+0111", "U+0112", "U+0113", "U+0114", "U+0115", "U+0116",
               "U+0117", "U+0118", "U+0119", "U+011A", "U+011B", "U+011C",
               "U+011D", "U+011E", "U+011F", "U+0120", "U+0121", "U+0122",
               "U+0123", "U+0124", "U+0125", "U+0126", "U+0127", "U+0128",
               "U+0129", "U+012A", "U+012B", "U+012C", "U+012D", "U+012E",
               "U+012F">>>>,
       <<305, <<"U+0131", "U+0132", "U+0133", "U+0134", "U+0135", "U+0136",
                "U+0137">>>>,
       <<313, <<"U+0139", "U+013A", "U+013B", "U+013C", "U+013D", "U+013E",
                "U+013F", "U+0140", "U+0141", "U+0142", "U+0143", "U+0144",
                "U+0145", "U+0146", "U+0147", "U+0148", "U+0149", "U+014A",
                "U+014B", "U+014C", "U+014D", "U+014E", "U+014F", "U+0150",
                "U+0151", "U+0152", "U+0153", "U+0154", "U+0155", "U+0156",
                "U+0157", "U+0158", "U+0159", "U+015A", "U+015B", "U+015C",
                "U+015D", "U+015E", "U+015F", "U+0160", "U+0161", "U+0162",
                "U+0163", "U+0164", "U+0165", "U+0166", "U+0167", "U+0168",
                "U+0169", "U+016A", "U+016B", "U+016C", "U+016D", "U+016E",
                "U+016F", "U+0170", "U+0171", "U+0172", "U+0173", "U+0174",
                "U+0175", "U+0176", "U+0177", "U+0178", "U+0179", "U+017A",
                "U+017B", "U+017C", "U+017D", "U+017E", "U+017F", "U+0180",
                "U+0181", "U+0182", "U+0183", "U+0184", "U+0185", "U+0186",
                "U+0187", "U+0188", "U+0189", "U+018A", "U+018B", "U+018C">>>>,
       <<398, <<"U+018E", "U+018F", "U+0190", "U+0191", "U+0192", "U+0193",
                "U+0194", "U+0195", "U+0196", "U+0197", "U+0198", "U+0199",
                "U+019A">>>>,
       <<412, <<"U+019C", "U+019D", "U+019E", "U+019F", "U+01A0", "U+01A1",
                "U+01A2", "U+01A3", "U+01A4", "U+01A5", "U+01A6", "U+01A7",
                "U+01A8", "U+01A9">>>>,
       <<428, <<"U+01AC", "U+01AD", "U+01AE", "U+01AF", "U+01B0", "U+01B1",
                "U+01B2", "U+01B3", "U+01B4", "U+01B5", "U+01B6", "U+01B7",
                "U+01B8", "U+01B9">>>>,
       <<444, <<"U+01BC", "U+01BD">>>>,
       <<447, <<"U+01BF">>>>,
       <<452, <<"U+01C4", "U+01C5", "U+01C6", "U+01C7", "U+01C8", "U+01C9",
                "U+01CA", "U+01CB", "U+01CC", "U+01CD", "U+01CE", "U+01CF",
                "U+01D0", "U+01D1", "U+01D2", "U+01D3", "U+01D4", "U+01D5",
                "U+01D6", "U+01D7", "U+01D8", "U+01D9", "U+01DA", "U+01DB",
                "U+01DC", "U+01DD", "U+01DE", "U+01DF", "U+01E0", "U+01E1",
                "U+01E2", "U+01E3", "U+01E4", "U+01E5", "U+01E6", "U+01E7",
                "U+01E8", "U+01E9", "U+01EA", "U+01EB", "U+01EC", "U+01ED",
                "U+01EE", "U+01EF", "U+01F0", "U+01F1", "U+01F2", "U+01F3",
                "U+01F4", "U+01F5", "U+01F6", "U+01F7", "U+01F8", "U+01F9",
                "U+01FA", "U+01FB", "U+01FC", "U+01FD", "U+01FE", "U+01FF",
                "U+0200", "U+0201", "U+0202", "U+0203", "U+0204", "U+0205",
                "U+0206", "U+0207", "U+0208", "U+0209", "U+020A", "U+020B",
                "U+020C", "U+020D", "U+020E", "U+020F", "U+0210", "U+0211",
                "U+0212", "U+0213", "U+0214", "U+0215", "U+0216", "U+0217",
                "U+0218", "U+0219", "U+021A", "U+021B", "U+021C", "U+021D",
                "U+021E", "U+021F", "U+0220">>>>,
       <<546, <<"U+0222", "U+0223", "U+0224", "U+0225", "U+0226", "U+0227",
                "U+0228", "U+0229", "U+022A", "U+022B", "U+022C", "U+022D",
                "U+022E", "U+022F", "U+0230", "U+0231", "U+0232", "U+0233">>>>,
       <<570, <<"U+023A", "U+023B", "U+023C", "U+023D", "U+023E", "U+023F",
                "U+0240", "U+0241", "U+0242", "U+0243", "U+0244", "U+0245",
                "U+0246", "U+0247", "U+0248", "U+0249", "U+024A", "U+024B",
                "U+024C", "U+024D", "U+024E", "U+024F", "U+0250", "U+0251",
                "U+0252", "U+0253", "U+0254">>>>,
       <<598, <<"U+0256", "U+0257">>>>,
       <<601, <<"U+0259">>>>,
       <<603, <<"U+025B", "U+025C">>>>,
       <<608, <<"U+0260", "U+0261">>>>,
       <<611, <<"U+0263">>>>,
       <<613, <<"U+0265", "U+0266">>>>,
       <<616, <<"U+0268", "U+0269", "U+026A", "U+026B", "U+026C">>>>,
       <<623, <<"U+026F">>>>,
       <<625, <<"U+0271", "U+0272">>>>,
       <<629, <<"U+0275">>>>,
       <<637, <<"U+027D">>>>,
       <<640, <<"U+0280">>>>,
       <<642, <<"U+0282", "U+0283">>>>,
       <<647, <<"U+0287", "U+0288", "U+0289", "U+028A", "U+028B", "U+028C">>>>,
       <<658, <<"U+0292">>>>,
       <<669, <<"U+029D", "U+029E">>>>,
       <<700, <<"U+02BC">>>>,
       <<702, <<"U+02BE">>>>,
       <<768, <<"U+0300", "U+0301">>>>,
       <<776, <<"U+0308">>>>,
       <<778, <<"U+030A">>>>,
       <<780, <<"U+030C">>>>,
       <<787, <<"U+0313">>>>,
       <<817, <<"U+0331">>>>,
       <<834, <<"U+0342">>>>,
       <<837, <<"U+0345">>>>,
       <<880, <<"U+0370", "U+0371", "U+0372", "U+0373">>>>,
       <<886, <<"U+0376", "U+0377">>>>,
       <<891, <<"U+037B", "U+037C", "U+037D">>>>,
       <<895, <<"U+037F">>>>,
       <<902, <<"U+0386">>>>,
       <<904, <<"U+0388", "U+0389", "U+038A">>>>,
       <<908, <<"U+038C">>>>,
       <<910, <<"U+038E", "U+038F", "U+0390", "U+0391", "U+0392", "U+0393",
                "U+0394", "U+0395", "U+0396", "U+0397", "U+0398", "U+0399",
                "U+039A", "U+039B", "U+039C", "U+039D", "U+039E", "U+039F",
                "U+03A0", "U+03A1">>>>,
       <<931, <<"U+03A3", "U+03A4", "U+03A5", "U+03A6", "U+03A7", "U+03A8",
                "U+03A9", "U+03AA", "U+03AB", "U+03AC", "U+03AD", "U+03AE",
                "U+03AF", "U+03B0", "U+03B1", "U+03B2", "U+03B3", "U+03B4",
                "U+03B5", "U+03B6", "U+03B7", "U+03B8", "U+03B9", "U+03BA",
                "U+03BB", "U+03BC", "U+03BD", "U+03BE", "U+03BF", "U+03C0",
                "U+03C1", "U+03C2", "U+03C3", "U+03C4", "U+03C5", "U+03C6",
                "U+03C7", "U+03C8", "U+03C9", "U+03CA", "U+03CB", "U+03CC",
                "U+03CD", "U+03CE", "U+03CF", "U+03D0", "U+03D1">>>>,
       <<981, <<"U+03D5", "U+03D6", "U+03D7", "U+03D8", "U+03D9", "U+03DA",
                "U+03DB", "U+03DC", "U+03DD", "U+03DE", "U+03DF", "U+03E0",
                "U+03E1", "U+03E2", "U+03E3", "U+03E4", "U+03E5", "U+03E6",
                "U+03E7", "U+03E8", "U+03E9", "U+03EA", "U+03EB", "U+03EC",
                "U+03ED", "U+03EE", "U+03EF", "U+03F0", "U+03F1", "U+03F2",
                "U+03F3">>>>,
       <<1013, <<"U+03F5">>>>,
       <<1015, <<"U+03F7", "U+03F8", "U+03F9", "U+03FA", "U+03FB">>>>,
       <<1021, <<"U+03FD", "U+03FE", "U+03FF", "U+0400", "U+0401", "U+0402",
                 "U+0403", "U+0404", "U+0405", "U+0406", "U+0407", "U+0408",
                 "U+0409", "U+040A", "U+040B", "U+040C", "U+040D", "U+040E",
                 "U+040F", "U+0410", "U+0411", "U+0412", "U+0413", "U+0414",
                 "U+0415", "U+0416", "U+0417", "U+0418", "U+0419", "U+041A",
                 "U+041B", "U+041C", "U+041D", "U+041E", "U+041F", "U+0420",
                 "U+0421", "U+0422", "U+0423", "U+0424", "U+0425", "U+0426",
                 "U+0427", "U+0428", "U+0429", "U+042A", "U+042B", "U+042C",
                 "U+042D", "U+042E", "U+042F", "U+0430", "U+0431", "U+0432",
                 "U+0433", "U+0434", "U+0435", "U+0436", "U+0437", "U+0438",
                 "U+0439", "U+043A", "U+043B", "U+043C", "U+043D", "U+043E",
                 "U+043F", "U+0440", "U+0441", "U+0442", "U+0443", "U+0444",
                 "U+0445", "U+0446", "U+0447", "U+0448", "U+0449", "U+044A",
                 "U+044B", "U+044C", "U+044D", "U+044E", "U+044F", "U+0450",
                 "U+0451", "U+0452", "U+0453", "U+0454", "U+0455", "U+0456",
                 "U+0457", "U+0458", "U+0459", "U+045A", "U+045B", "U+045C",
                 "U+045D", "U+045E", "U+045F", "U+0460", "U+0461", "U+0462",
                 "U+0463", "U+0464", "U+0465", "U+0466", "U+0467", "U+0468",
                 "U+0469", "U+046A", "U+046B", "U+046C", "U+046D", "U+046E",
                 "U+046F", "U+0470", "U+0471", "U+0472", "U+0473", "U+0474",
                 "U+0475", "U+0476", "U+0477", "U+0478", "U+0479", "U+047A",
                 "U+047B", "U+047C", "U+047D", "U+047E", "U+047F", "U+0480",
                 "U+0481">>>>,
       <<1162, <<"U+048A", "U+048B", "U+048C", "U+048D", "U+048E", "U+048F",
                 "U+0490", "U+0491", "U+0492", "U+0493", "U+0494", "U+0495",
                 "U+0496", "U+0497", "U+0498", "U+0499", "U+049A", "U+049B",
                 "U+049C", "U+049D", "U+049E", "U+049F", "U+04A0", "U+04A1",
                 "U+04A2", "U+04A3", "U+04A4", "U+04A5", "U+04A6", "U+04A7",
                 "U+04A8", "U+04A9", "U+04AA", "U+04AB", "U+04AC", "U+04AD",
                 "U+04AE", "U+04AF", "U+04B0", "U+04B1", "U+04B2", "U+04B3",
                 "U+04B4", "U+04B5", "U+04B6", "U+04B7", "U+04B8", "U+04B9",
                 "U+04BA", "U+04BB", "U+04BC", "U+04BD", "U+04BE", "U+04BF",
                 "U+04C0", "U+04C1", "U+04C2", "U+04C3", "U+04C4", "U+04C5",
                 "U+04C6", "U+04C7", "U+04C8", "U+04C9", "U+04CA", "U+04CB",
                 "U+04CC", "U+04CD", "U+04CE", "U+04CF", "U+04D0", "U+04D1",
                 "U+04D2", "U+04D3", "U+04D4", "U+04D5", "U+04D6", "U+04D7",
                 "U+04D8", "U+04D9", "U+04DA", "U+04DB", "U+04DC", "U+04DD",
                 "U+04DE", "U+04DF", "U+04E0", "U+04E1", "U+04E2", "U+04E3",
                 "U+04E4", "U+04E5", "U+04E6", "U+04E7", "U+04E8", "U+04E9",
                 "U+04EA", "U+04EB", "U+04EC", "U+04ED", "U+04EE", "U+04EF",
                 "U+04F0", "U+04F1", "U+04F2", "U+04F3", "U+04F4", "U+04F5",
                 "U+04F6", "U+04F7", "U+04F8", "U+04F9", "U+04FA", "U+04FB",
                 "U+04FC", "U+04FD", "U+04FE", "U+04FF", "U+0500", "U+0501",
                 "U+0502", "U+0503", "U+0504", "U+0505", "U+0506", "U+0507",
                 "U+0508", "U+0509", "U+050A", "U+050B", "U+050C", "U+050D",
                 "U+050E", "U+050F", "U+0510", "U+0511", "U+0512", "U+0513",
                 "U+0514", "U+0515", "U+0516", "U+0517", "U+0518", "U+0519",
                 "U+051A", "U+051B", "U+051C", "U+051D", "U+051E", "U+051F",
                 "U+0520", "U+0521", "U+0522", "U+0523", "U+0524", "U+0525",
                 "U+0526", "U+0527", "U+0528", "U+0529", "U+052A", "U+052B",
                 "U+052C", "U+052D", "U+052E", "U+052F">>>>,
       <<1329, <<"U+0531", "U+0532", "U+0533", "U+0534", "U+0535", "U+0536",
                 "U+0537", "U+0538", "U+0539", "U+053A", "U+053B", "U+053C",
                 "U+053D", "U+053E", "U+053F", "U+0540", "U+0541", "U+0542",
                 "U+0543", "U+0544", "U+0545", "U+0546", "U+0547", "U+0548",
                 "U+0549", "U+054A", "U+054B", "U+054C", "U+054D", "U+054E",
                 "U+054F", "U+0550", "U+0551", "U+0552", "U+0553", "U+0554",
                 "U+0555", "U+0556">>>>,
       <<1377, <<"U+0561", "U+0562", "U+0563", "U+0564", "U+0565", "U+0566",
                 "U+0567", "U+0568", "U+0569", "U+056A", "U+056B", "U+056C",
                 "U+056D", "U+056E", "U+056F", "U+0570", "U+0571", "U+0572",
                 "U+0573", "U+0574", "U+0575", "U+0576", "U+0577", "U+0578",
                 "U+0579", "U+057A", "U+057B", "U+057C", "U+057D", "U+057E",
                 "U+057F", "U+0580", "U+0581", "U+0582", "U+0583", "U+0584",
                 "U+0585", "U+0586", "U+0587">>>>,
       <<1632, <<"U+0660", "U+0661", "U+0662", "U+0663", "U+0664", "U+0665",
                 "U+0666", "U+0667", "U+0668", "U+0669">>>>,
       <<1776, <<"U+06F0", "U+06F1", "U+06F2", "U+06F3", "U+06F4", "U+06F5",
                 "U+06F6", "U+06F7", "U+06F8", "U+06F9">>>>,
       <<1984, <<"U+07C0", "U+07C1", "U+07C2", "U+07C3", "U+07C4", "U+07C5",
                 "U+07C6", "U+07C7", "U+07C8", "U+07C9">>>>,
       <<2406, <<"U+0966", "U+0967", "U+0968", "U+0969", "U+096A", "U+096B",
                 "U+096C", "U+096D", "U+096E", "U+096F">>>>,
       <<2534, <<"U+09E6", "U+09E7", "U+09E8", "U+09E9", "U+09EA", "U+09EB",
                 "U+09EC", "U+09ED", "U+09EE", "U+09EF">>>>,
       <<2662, <<"U+0A66", "U+0A67", "U+0A68", "U+0A69", "U+0A6A", "U+0A6B",
                 "U+0A6C", "U+0A6D", "U+0A6E", "U+0A6F">>>>,
       <<2790, <<"U+0AE6", "U+0AE7", "U+0AE8", "U+0AE9", "U+0AEA", "U+0AEB",
                 "U+0AEC", "U+0AED", "U+0AEE", "U+0AEF">>>>,
       <<2918, <<"U+0B66", "U+0B67", "U+0B68", "U+0B69", "U+0B6A", "U+0B6B",
                 "U+0B6C", "U+0B6D", "U+0B6E", "U+0B6F">>>>,
       <<3046, <<"U+0BE6", "U+0BE7", "U+0BE8", "U+0BE9", "U+0BEA", "U+0BEB",
                 "U+0BEC", "U+0BED", "U+0BEE", "U+0BEF">>>>,
       <<3174, <<"U+0C66", "U+0C67", "U+0C68", "U+0C69", "U+0C6A", "U+0C6B",
                 "U+0C6C", "U+0C6D", "U+0C6E", "U+0C6F">>>>,
       <<3302, <<"U+0CE6", "U+0CE7", "U+0CE8", "U+0CE9", "U+0CEA", "U+0CEB",
                 "U+0CEC", "U+0CED", "U+0CEE", "U+0CEF">>>>,
       <<3430, <<"U+0D66", "U+0D67", "U+0D68", "U+0D69", "U+0D6A", "U+0D6B",
                 "U+0D6C", "U+0D6D", "U+0D6E", "U+0D6F">>>>,
       <<3558, <<"U+0DE6", "U+0DE7", "U+0DE8", "U+0DE9", "U+0DEA", "U+0DEB",
                 "U+0DEC", "U+0DED", "U+0DEE", "U+0DEF">>>>,
       <<3664, <<"U+0E50", "U+0E51", "U+0E52", "U+0E53", "U+0E54", "U+0E55",
                 "U+0E56", "U+0E57", "U+0E58", "U+0E59">>>>,
       <<3792, <<"U+0ED0", "U+0ED1", "U+0ED2", "U+0ED3", "U+0ED4", "U+0ED5",
                 "U+0ED6", "U+0ED7", "U+0ED8", "U+0ED9">>>>,
       <<3872, <<"U+0F20", "U+0F21", "U+0F22", "U+0F23", "U+0F24", "U+0F25",
                 "U+0F26", "U+0F27", "U+0F28", "U+0F29">>>>,
       <<4160, <<"U+1040", "U+1041", "U+1042", "U+1043", "U+1044", "U+1045",
                 "U+1046", "U+1047", "U+1048", "U+1049">>>>,
       <<4240, <<"U+1090", "U+1091", "U+1092", "U+1093", "U+1094", "U+1095",
                 "U+1096", "U+1097", "U+1098", "U+1099">>>>,
       <<4256, <<"U+10A0", "U+10A1", "U+10A2", "U+10A3", "U+10A4", "U+10A5",
                 "U+10A6", "U+10A7", "U+10A8", "U+10A9", "U+10AA", "U+10AB",
                 "U+10AC", "U+10AD", "U+10AE", "U+10AF", "U+10B0", "U+10B1",
                 "U+10B2", "U+10B3", "U+10B4", "U+10B5", "U+10B6", "U+10B7",
                 "U+10B8", "U+10B9", "U+10BA", "U+10BB", "U+10BC", "U+10BD",
                 "U+10BE", "U+10BF", "U+10C0", "U+10C1", "U+10C2", "U+10C3",
                 "U+10C4", "U+10C5">>>>,
       <<4295, <<"U+10C7">>>>,
       <<4301, <<"U+10CD">>>>,
       <<4304, <<"U+10D0", "U+10D1", "U+10D2", "U+10D3", "U+10D4", "U+10D5",
                 "U+10D6", "U+10D7", "U+10D8", "U+10D9", "U+10DA", "U+10DB",
                 "U+10DC", "U+10DD", "U+10DE", "U+10DF", "U+10E0", "U+10E1",
                 "U+10E2", "U+10E3", "U+10E4", "U+10E5", "U+10E6", "U+10E7",
                 "U+10E8", "U+10E9", "U+10EA", "U+10EB", "U+10EC", "U+10ED",
                 "U+10EE", "U+10EF", "U+10F0", "U+10F1", "U+10F2", "U+10F3",
                 "U+10F4", "U+10F5", "U+10F6", "U+10F7", "U+10F8", "U+10F9",
                 "U+10FA">>>>,
       <<4349, <<"U+10FD", "U+10FE", "U+10FF">>>>,
       <<5024, <<"U+13A0", "U+13A1", "U+13A2", "U+13A3", "U+13A4", "U+13A5",
                 "U+13A6", "U+13A7", "U+13A8", "U+13A9", "U+13AA", "U+13AB",
                 "U+13AC", "U+13AD", "U+13AE", "U+13AF", "U+13B0", "U+13B1",
                 "U+13B2", "U+13B3", "U+13B4", "U+13B5", "U+13B6", "U+13B7",
                 "U+13B8", "U+13B9", "U+13BA", "U+13BB", "U+13BC", "U+13BD",
                 "U+13BE", "U+13BF", "U+13C0", "U+13C1", "U+13C2", "U+13C3",
                 "U+13C4", "U+13C5", "U+13C6", "U+13C7", "U+13C8", "U+13C9",
                 "U+13CA", "U+13CB", "U+13CC", "U+13CD", "U+13CE", "U+13CF",
                 "U+13D0", "U+13D1", "U+13D2", "U+13D3", "U+13D4", "U+13D5",
                 "U+13D6", "U+13D7", "U+13D8", "U+13D9", "U+13DA", "U+13DB",
                 "U+13DC", "U+13DD", "U+13DE", "U+13DF", "U+13E0", "U+13E1",
                 "U+13E2", "U+13E3", "U+13E4", "U+13E5", "U+13E6", "U+13E7",
                 "U+13E8", "U+13E9", "U+13EA", "U+13EB", "U+13EC", "U+13ED",
                 "U+13EE", "U+13EF", "U+13F0", "U+13F1", "U+13F2", "U+13F3",
                 "U+13F4", "U+13F5">>>>,
       <<5112, <<"U+13F8", "U+13F9", "U+13FA", "U+13FB", "U+13FC", "U+13FD">>>>,
       <<5760, <<"U+1680">>>>,
       <<6112, <<"U+17E0", "U+17E1", "U+17E2", "U+17E3", "U+17E4", "U+17E5",
                 "U+17E6", "U+17E7", "U+17E8", "U+17E9">>>>,
       <<6160, <<"U+1810", "U+1811", "U+1812", "U+1813", "U+1814", "U+1815",
                 "U+1816", "U+1817", "U+1818", "U+1819">>>>,
       <<6470, <<"U+1946", "U+1947", "U+1948", "U+1949", "U+194A", "U+194B",
                 "U+194C", "U+194D", "U+194E", "U+194F">>>>,
       <<6608, <<"U+19D0", "U+19D1", "U+19D2", "U+19D3", "U+19D4", "U+19D5",
                 "U+19D6", "U+19D7", "U+19D8", "U+19D9">>>>,
       <<6784, <<"U+1A80", "U+1A81", "U+1A82", "U+1A83", "U+1A84", "U+1A85",
                 "U+1A86", "U+1A87", "U+1A88", "U+1A89">>>>,
       <<6800, <<"U+1A90", "U+1A91", "U+1A92", "U+1A93", "U+1A94", "U+1A95",
                 "U+1A96", "U+1A97", "U+1A98", "U+1A99">>>>,
       <<6992, <<"U+1B50", "U+1B51", "U+1B52", "U+1B53", "U+1B54", "U+1B55",
                 "U+1B56", "U+1B57", "U+1B58", "U+1B59">>>>,
       <<7088, <<"U+1BB0", "U+1BB1", "U+1BB2", "U+1BB3", "U+1BB4", "U+1BB5",
                 "U+1BB6", "U+1BB7", "U+1BB8", "U+1BB9">>>>,
       <<7232, <<"U+1C40", "U+1C41", "U+1C42", "U+1C43", "U+1C44", "U+1C45",
                 "U+1C46", "U+1C47", "U+1C48", "U+1C49">>>>,
       <<7248, <<"U+1C50", "U+1C51", "U+1C52", "U+1C53", "U+1C54", "U+1C55",
                 "U+1C56", "U+1C57", "U+1C58", "U+1C59">>>>,
       <<7296, <<"U+1C80", "U+1C81", "U+1C82", "U+1C83", "U+1C84", "U+1C85",
                 "U+1C86", "U+1C87", "U+1C88">>>>,
       <<7312, <<"U+1C90", "U+1C91", "U+1C92", "U+1C93", "U+1C94", "U+1C95",
                 "U+1C96", "U+1C97", "U+1C98", "U+1C99", "U+1C9A", "U+1C9B",
                 "U+1C9C", "U+1C9D", "U+1C9E", "U+1C9F", "U+1CA0", "U+1CA1",
                 "U+1CA2", "U+1CA3", "U+1CA4", "U+1CA5", "U+1CA6", "U+1CA7",
                 "U+1CA8", "U+1CA9", "U+1CAA", "U+1CAB", "U+1CAC", "U+1CAD",
                 "U+1CAE", "U+1CAF", "U+1CB0", "U+1CB1", "U+1CB2", "U+1CB3",
                 "U+1CB4", "U+1CB5", "U+1CB6", "U+1CB7", "U+1CB8", "U+1CB9",
                 "U+1CBA">>>>,
       <<7357, <<"U+1CBD", "U+1CBE", "U+1CBF">>>>,
       <<7545, <<"U+1D79">>>>,
       <<7549, <<"U+1D7D">>>>,
       <<7566, <<"U+1D8E">>>>,
       <<7680, <<"U+1E00", "U+1E01", "U+1E02", "U+1E03", "U+1E04", "U+1E05",
                 "U+1E06", "U+1E07", "U+1E08", "U+1E09", "U+1E0A", "U+1E0B",
                 "U+1E0C", "U+1E0D", "U+1E0E", "U+1E0F", "U+1E10", "U+1E11",
                 "U+1E12", "U+1E13", "U+1E14", "U+1E15", "U+1E16", "U+1E17",
                 "U+1E18", "U+1E19", "U+1E1A", "U+1E1B", "U+1E1C", "U+1E1D",
                 "U+1E1E", "U+1E1F", "U+1E20", "U+1E21", "U+1E22", "U+1E23",
                 "U+1E24", "U+1E25", "U+1E26", "U+1E27", "U+1E28", "U+1E29",
                 "U+1E2A", "U+1E2B", "U+1E2C", "U+1E2D", "U+1E2E", "U+1E2F",
                 "U+1E30", "U+1E31", "U+1E32", "U+1E33", "U+1E34", "U+1E35",
                 "U+1E36", "U+1E37", "U+1E38", "U+1E39", "U+1E3A", "U+1E3B",
                 "U+1E3C", "U+1E3D", "U+1E3E", "U+1E3F", "U+1E40", "U+1E41",
                 "U+1E42", "U+1E43", "U+1E44", "U+1E45", "U+1E46", "U+1E47",
                 "U+1E48", "U+1E49", "U+1E4A", "U+1E4B", "U+1E4C", "U+1E4D",
                 "U+1E4E", "U+1E4F", "U+1E50", "U+1E51", "U+1E52", "U+1E53",
                 "U+1E54", "U+1E55", "U+1E56", "U+1E57", "U+1E58", "U+1E59",
                 "U+1E5A", "U+1E5B", "U+1E5C", "U+1E5D", "U+1E5E", "U+1E5F",
                 "U+1E60", "U+1E61", "U+1E62", "U+1E63", "U+1E64", "U+1E65",
                 "U+1E66", "U+1E67", "U+1E68", "U+1E69", "U+1E6A", "U+1E6B",
                 "U+1E6C", "U+1E6D", "U+1E6E", "U+1E6F", "U+1E70", "U+1E71",
                 "U+1E72", "U+1E73", "U+1E74", "U+1E75", "U+1E76", "U+1E77",
                 "U+1E78", "U+1E79", "U+1E7A", "U+1E7B", "U+1E7C", "U+1E7D",
                 "U+1E7E", "U+1E7F", "U+1E80", "U+1E81", "U+1E82", "U+1E83",
                 "U+1E84", "U+1E85", "U+1E86", "U+1E87", "U+1E88", "U+1E89",
                 "U+1E8A", "U+1E8B", "U+1E8C", "U+1E8D", "U+1E8E", "U+1E8F",
                 "U+1E90", "U+1E91", "U+1E92", "U+1E93", "U+1E94", "U+1E95",
                 "U+1E96", "U+1E97", "U+1E98", "U+1E99", "U+1E9A", "U+1E9B">>>>,
       <<7840, <<"U+1EA0", "U+1EA1", "U+1EA2", "U+1EA3", "U+1EA4", "U+1EA5",
                 "U+1EA6", "U+1EA7", "U+1EA8", "U+1EA9", "U+1EAA", "U+1EAB",
                 "U+1EAC", "U+1EAD", "U+1EAE", "U+1EAF", "U+1EB0", "U+1EB1",
                 "U+1EB2", "U+1EB3", "U+1EB4", "U+1EB5", "U+1EB6", "U+1EB7",
                 "U+1EB8", "U+1EB9", "U+1EBA", "U+1EBB", "U+1EBC", "U+1EBD",
                 "U+1EBE", "U+1EBF", "U+1EC0", "U+1EC1", "U+1EC2", "U+1EC3",
                 "U+1EC4", "U+1EC5", "U+1EC6", "U+1EC7", "U+1EC8", "U+1EC9",
                 "U+1ECA", "U+1ECB", "U+1ECC", "U+1ECD", "U+1ECE", "U+1ECF",
                 "U+1ED0", "U+1ED1", "U+1ED2", "U+1ED3", "U+1ED4", "U+1ED5",
                 "U+1ED6", "U+1ED7", "U+1ED8", "U+1ED9", "U+1EDA", "U+1EDB",
                 "U+1EDC", "U+1EDD", "U+1EDE", "U+1EDF", "U+1EE0", "U+1EE1",
                 "U+1EE2", "U+1EE3", "U+1EE4", "U+1EE5", "U+1EE6", "U+1EE7",
                 "U+1EE8", "U+1EE9", "U+1EEA", "U+1EEB", "U+1EEC", "U+1EED",
                 "U+1EEE", "U+1EEF", "U+1EF0", "U+1EF1", "U+1EF2", "U+1EF3",
                 "U+1EF4", "U+1EF5", "U+1EF6", "U+1EF7", "U+1EF8", "U+1EF9",
                 "U+1EFA", "U+1EFB", "U+1EFC", "U+1EFD", "U+1EFE", "U+1EFF",
                 "U+1F00", "U+1F01", "U+1F02", "U+1F03", "U+1F04", "U+1F05",
                 "U+1F06", "U+1F07", "U+1F08", "U+1F09", "U+1F0A", "U+1F0B",
                 "U+1F0C", "U+1F0D", "U+1F0E", "U+1F0F", "U+1F10", "U+1F11",
                 "U+1F12", "U+1F13", "U+1F14", "U+1F15">>>>,
       <<7960, <<"U+1F18", "U+1F19", "U+1F1A", "U+1F1B", "U+1F1C", "U+1F1D">>>>,
       <<7968, <<"U+1F20", "U+1F21", "U+1F22", "U+1F23", "U+1F24", "U+1F25",
                 "U+1F26", "U+1F27", "U+1F28", "U+1F29", "U+1F2A", "U+1F2B",
                 "U+1F2C", "U+1F2D", "U+1F2E", "U+1F2F", "U+1F30", "U+1F31",
                 "U+1F32", "U+1F33", "U+1F34", "U+1F35", "U+1F36", "U+1F37",
                 "U+1F38", "U+1F39", "U+1F3A", "U+1F3B", "U+1F3C", "U+1F3D",
                 "U+1F3E", "U+1F3F", "U+1F40", "U+1F41", "U+1F42", "U+1F43",
                 "U+1F44", "U+1F45">>>>,
       <<8008, <<"U+1F48", "U+1F49", "U+1F4A", "U+1F4B", "U+1F4C", "U+1F4D">>>>,
       <<8016, <<"U+1F50", "U+1F51", "U+1F52", "U+1F53", "U+1F54", "U+1F55",
                 "U+1F56", "U+1F57">>>>,
       <<8025, <<"U+1F59">>>>,
       <<8027, <<"U+1F5B">>>>,
       <<8029, <<"U+1F5D">>>>,
       <<8031, <<"U+1F5F", "U+1F60", "U+1F61", "U+1F62", "U+1F63", "U+1F64",
                 "U+1F65", "U+1F66", "U+1F67", "U+1F68", "U+1F69", "U+1F6A",
                 "U+1F6B", "U+1F6C", "U+1F6D", "U+1F6E", "U+1F6F", "U+1F70",
                 "U+1F71", "U+1F72", "U+1F73", "U+1F74", "U+1F75", "U+1F76",
                 "U+1F77", "U+1F78", "U+1F79", "U+1F7A", "U+1F7B", "U+1F7C",
                 "U+1F7D">>>>,
       <<8064, <<"U+1F80", "U+1F81", "U+1F82", "U+1F83", "U+1F84", "U+1F85",
                 "U+1F86", "U+1F87", "U+1F88", "U+1F89", "U+1F8A", "U+1F8B",
                 "U+1F8C", "U+1F8D", "U+1F8E", "U+1F8F", "U+1F90", "U+1F91",
                 "U+1F92", "U+1F93", "U+1F94", "U+1F95", "U+1F96", "U+1F97",
                 "U+1F98", "U+1F99", "U+1F9A", "U+1F9B", "U+1F9C", "U+1F9D",
                 "U+1F9E", "U+1F9F", "U+1FA0", "U+1FA1", "U+1FA2", "U+1FA3",
                 "U+1FA4", "U+1FA5", "U+1FA6", "U+1FA7", "U+1FA8", "U+1FA9",
                 "U+1FAA", "U+1FAB", "U+1FAC", "U+1FAD", "U+1FAE", "U+1FAF",
                 "U+1FB0", "U+1FB1", "U+1FB2", "U+1FB3", "U+1FB4">>>>,
       <<8118, <<"U+1FB6", "U+1FB7", "U+1FB8", "U+1FB9", "U+1FBA", "U+1FBB",
                 "U+1FBC">>>>,
       <<8126, <<"U+1FBE">>>>,
       <<8130, <<"U+1FC2", "U+1FC3", "U+1FC4">>>>,
       <<8134, <<"U+1FC6", "U+1FC7", "U+1FC8", "U+1FC9", "U+1FCA", "U+1FCB",
                 "U+1FCC">>>>,
       <<8144, <<"U+1FD0", "U+1FD1", "U+1FD2", "U+1FD3">>>>,
       <<8150, <<"U+1FD6", "U+1FD7", "U+1FD8", "U+1FD9", "U+1FDA", "U+1FDB">>>>,
       <<8160, <<"U+1FE0", "U+1FE1", "U+1FE2", "U+1FE3", "U+1FE4", "U+1FE5",
                 "U+1FE6", "U+1FE7", "U+1FE8", "U+1FE9", "U+1FEA", "U+1FEB",
                 "U+1FEC">>>>,
       <<8178, <<"U+1FF2", "U+1FF3", "U+1FF4">>>>,
       <<8182, <<"U+1FF6", "U+1FF7", "U+1FF8", "U+1FF9", "U+1FFA", "U+1FFB",
                 "U+1FFC">>>>,
       <<8192, <<"U+2000", "U+2001", "U+2002", "U+2003", "U+2004", "U+2005",
                 "U+2006", "U+2007", "U+2008", "U+2009", "U+200A">>>>,
       <<8230, <<"U+2026">>>>,
       <<8232, <<"U+2028", "U+2029">>>>,
       <<8239, <<"U+202F">>>>,
       <<8287, <<"U+205F">>>>,
       <<8498, <<"U+2132">>>>,
       <<8526, <<"U+214E">>>>,
       <<8544, <<"U+2160", "U+2161", "U+2162", "U+2163", "U+2164", "U+2165",
                 "U+2166", "U+2167", "U+2168", "U+2169", "U+216A", "U+216B",
                 "U+216C", "U+216D", "U+216E", "U+216F", "U+2170", "U+2171",
                 "U+2172", "U+2173", "U+2174", "U+2175", "U+2176", "U+2177",
                 "U+2178", "U+2179", "U+217A", "U+217B", "U+217C", "U+217D",
                 "U+217E", "U+217F">>>>,
       <<8579, <<"U+2183", "U+2184">>>>,
       <<9398, <<"U+24B6", "U+24B7", "U+24B8", "U+24B9", "U+24BA", "U+24BB",
                 "U+24BC", "U+24BD", "U+24BE", "U+24BF", "U+24C0", "U+24C1",
                 "U+24C2", "U+24C3", "U+24C4", "U+24C5", "U+24C6", "U+24C7",
                 "U+24C8", "U+24C9", "U+24CA", "U+24CB", "U+24CC", "U+24CD",
                 "U+24CE", "U+24CF", "U+24D0", "U+24D1", "U+24D2", "U+24D3",
                 "U+24D4", "U+24D5", "U+24D6", "U+24D7", "U+24D8", "U+24D9",
                 "U+24DA", "U+24DB", "U+24DC", "U+24DD", "U+24DE", "U+24DF",
                 "U+24E0", "U+24E1", "U+24E2", "U+24E3", "U+24E4", "U+24E5",
                 "U+24E6", "U+24E7", "U+24E8", "U+24E9">>>>,
       <<11264, <<"U+2C00", "U+2C01", "U+2C02", "U+2C03", "U+2C04", "U+2C05",
                  "U+2C06", "U+2C07", "U+2C08", "U+2C09", "U+2C0A", "U+2C0B",
                  "U+2C0C", "U+2C0D", "U+2C0E", "U+2C0F", "U+2C10", "U+2C11",
                  "U+2C12", "U+2C13", "U+2C14", "U+2C15", "U+2C16", "U+2C17",
                  "U+2C18", "U+2C19", "U+2C1A", "U+2C1B", "U+2C1C", "U+2C1D",
                  "U+2C1E", "U+2C1F", "U+2C20", "U+2C21", "U+2C22", "U+2C23",
                  "U+2C24", "U+2C25", "U+2C26", "U+2C27", "U+2C28", "U+2C29",
                  "U+2C2A", "U+2C2B", "U+2C2C", "U+2C2D", "U+2C2E", "U+2C2F",
                  "U+2C30", "U+2C31", "U+2C32", "U+2C33", "U+2C34", "U+2C35",
                  "U+2C36", "U+2C37", "U+2C38", "U+2C39", "U+2C3A", "U+2C3B",
                  "U+2C3C", "U+2C3D", "U+2C3E", "U+2C3F", "U+2C40", "U+2C41",
                  "U+2C42", "U+2C43", "U+2C44", "U+2C45", "U+2C46", "U+2C47",
                  "U+2C48", "U+2C49", "U+2C4A", "U+2C4B", "U+2C4C", "U+2C4D",
                  "U+2C4E", "U+2C4F", "U+2C50", "U+2C51", "U+2C52", "U+2C53",
                  "U+2C54", "U+2C55", "U+2C56", "U+2C57", "U+2C58", "U+2C59",
                  "U+2C5A", "U+2C5B", "U+2C5C", "U+2C5D", "U+2C5E", "U+2C5F",
                  "U+2C60", "U+2C61", "U+2C62", "U+2C63", "U+2C64", "U+2C65",
                  "U+2C66", "U+2C67", "U+2C68", "U+2C69", "U+2C6A", "U+2C6B",
                  "U+2C6C", "U+2C6D", "U+2C6E", "U+2C6F", "U+2C70">>>>,
       <<11378, <<"U+2C72", "U+2C73">>>>,
       <<11381, <<"U+2C75", "U+2C76">>>>,
       <<11390, <<"U+2C7E", "U+2C7F", "U+2C80", "U+2C81", "U+2C82", "U+2C83",
                  "U+2C84", "U+2C85", "U+2C86", "U+2C87", "U+2C88", "U+2C89",
                  "U+2C8A", "U+2C8B", "U+2C8C", "U+2C8D", "U+2C8E", "U+2C8F",
                  "U+2C90", "U+2C91", "U+2C92", "U+2C93", "U+2C94", "U+2C95",
                  "U+2C96", "U+2C97", "U+2C98", "U+2C99", "U+2C9A", "U+2C9B",
                  "U+2C9C", "U+2C9D", "U+2C9E", "U+2C9F", "U+2CA0", "U+2CA1",
                  "U+2CA2", "U+2CA3", "U+2CA4", "U+2CA5", "U+2CA6", "U+2CA7",
                  "U+2CA8", "U+2CA9", "U+2CAA", "U+2CAB", "U+2CAC", "U+2CAD",
                  "U+2CAE", "U+2CAF", "U+2CB0", "U+2CB1", "U+2CB2", "U+2CB3",
                  "U+2CB4", "U+2CB5", "U+2CB6", "U+2CB7", "U+2CB8", "U+2CB9",
                  "U+2CBA", "U+2CBB", "U+2CBC", "U+2CBD", "U+2CBE", "U+2CBF",
                  "U+2CC0", "U+2CC1", "U+2CC2", "U+2CC3", "U+2CC4", "U+2CC5",
                  "U+2CC6", "U+2CC7", "U+2CC8", "U+2CC9", "U+2CCA", "U+2CCB",
                  "U+2CCC", "U+2CCD", "U+2CCE", "U+2CCF", "U+2CD0", "U+2CD1",
                  "U+2CD2", "U+2CD3", "U+2CD4", "U+2CD5", "U+2CD6", "U+2CD7",
                  "U+2CD8", "U+2CD9", "U+2CDA", "U+2CDB", "U+2CDC", "U+2CDD",
                  "U+2CDE", "U+2CDF", "U+2CE0", "U+2CE1", "U+2CE2", "U+2CE3">>>>,
       <<11499, <<"U+2CEB", "U+2CEC", "U+2CED", "U+2CEE">>>>,
       <<11506, <<"U+2CF2", "U+2CF3">>>>,
       <<11520, <<"U+2D00", "U+2D01", "U+2D02", "U+2D03", "U+2D04", "U+2D05",
                  "U+2D06", "U+2D07", "U+2D08", "U+2D09", "U+2D0A", "U+2D0B",
                  "U+2D0C", "U+2D0D", "U+2D0E", "U+2D0F", "U+2D10", "U+2D11",
                  "U+2D12", "U+2D13", "U+2D14", "U+2D15", "U+2D16", "U+2D17",
                  "U+2D18", "U+2D19", "U+2D1A", "U+2D1B", "U+2D1C", "U+2D1D",
                  "U+2D1E", "U+2D1F", "U+2D20", "U+2D21", "U+2D22", "U+2D23",
                  "U+2D24", "U+2D25">>>>,
       <<11559, <<"U+2D27">>>>,
       <<11565, <<"U+2D2D">>>>,
       <<12288, <<"U+3000">>>>,
       <<42528, <<"U+A620", "U+A621", "U+A622", "U+A623", "U+A624", "U+A625",
                  "U+A626", "U+A627", "U+A628", "U+A629">>>>,
       <<42560, <<"U+A640", "U+A641", "U+A642", "U+A643", "U+A644", "U+A645",
                  "U+A646", "U+A647", "U+A648", "U+A649", "U+A64A", "U+A64B",
                  "U+A64C", "U+A64D", "U+A64E", "U+A64F", "U+A650", "U+A651",
                  "U+A652", "U+A653", "U+A654", "U+A655", "U+A656", "U+A657",
                  "U+A658", "U+A659", "U+A65A", "U+A65B", "U+A65C", "U+A65D",
                  "U+A65E", "U+A65F", "U+A660", "U+A661", "U+A662", "U+A663",
                  "U+A664", "U+A665", "U+A666", "U+A667", "U+A668", "U+A669",
                  "U+A66A", "U+A66B", "U+A66C", "U+A66D">>>>,
       <<42624, <<"U+A680", "U+A681", "U+A682", "U+A683", "U+A684", "U+A685",
                  "U+A686", "U+A687", "U+A688", "U+A689", "U+A68A", "U+A68B",
                  "U+A68C", "U+A68D", "U+A68E", "U+A68F", "U+A690", "U+A691",
                  "U+A692", "U+A693", "U+A694", "U+A695", "U+A696", "U+A697",
                  "U+A698", "U+A699", "U+A69A", "U+A69B">>>>,
       <<42786, <<"U+A722", "U+A723", "U+A724", "U+A725", "U+A726", "U+A727",
                  "U+A728", "U+A729", "U+A72A", "U+A72B", "U+A72C", "U+A72D",
                  "U+A72E", "U+A72F">>>>,
       <<42802, <<"U+A732", "U+A733", "U+A734", "U+A735", "U+A736", "U+A737",
                  "U+A738", "U+A739", "U+A73A", "U+A73B", "U+A73C", "U+A73D",
                  "U+A73E", "U+A73F", "U+A740", "U+A741", "U+A742", "U+A743",
                  "U+A744", "U+A745", "U+A746", "U+A747", "U+A748", "U+A749",
                  "U+A74A", "U+A74B", "U+A74C", "U+A74D", "U+A74E", "U+A74F",
                  "U+A750", "U+A751", "U+A752", "U+A753", "U+A754", "U+A755",
                  "U+A756", "U+A757", "U+A758", "U+A759", "U+A75A", "U+A75B",
                  "U+A75C", "U+A75D", "U+A75E", "U+A75F", "U+A760", "U+A761",
                  "U+A762", "U+A763", "U+A764", "U+A765", "U+A766", "U+A767",
                  "U+A768", "U+A769", "U+A76A", "U+A76B", "U+A76C", "U+A76D",
                  "U+A76E", "U+A76F">>>>,
       <<42873, <<"U+A779", "U+A77A", "U+A77B", "U+A77C", "U+A77D", "U+A77E",
                  "U+A77F", "U+A780", "U+A781", "U+A782", "U+A783", "U+A784",
                  "U+A785", "U+A786", "U+A787">>>>,
       <<42891, <<"U+A78B", "U+A78C", "U+A78D">>>>,
       <<42896, <<"U+A790", "U+A791", "U+A792", "U+A793", "U+A794">>>>,
       <<42902, <<"U+A796", "U+A797", "U+A798", "U+A799", "U+A79A", "U+A79B",
                  "U+A79C", "U+A79D", "U+A79E", "U+A79F", "U+A7A0", "U+A7A1",
                  "U+A7A2", "U+A7A3", "U+A7A4", "U+A7A5", "U+A7A6", "U+A7A7",
                  "U+A7A8", "U+A7A9", "U+A7AA", "U+A7AB", "U+A7AC", "U+A7AD",
                  "U+A7AE">>>>,
       <<42928, <<"U+A7B0", "U+A7B1", "U+A7B2", "U+A7B3", "U+A7B4", "U+A7B5",
                  "U+A7B6", "U+A7B7", "U+A7B8", "U+A7B9", "U+A7BA", "U+A7BB",
                  "U+A7BC", "U+A7BD", "U+A7BE", "U+A7BF", "U+A7C0", "U+A7C1",
                  "U+A7C2", "U+A7C3", "U+A7C4", "U+A7C5", "U+A7C6", "U+A7C7",
                  "U+A7C8", "U+A7C9", "U+A7CA">>>>,
       <<42960, <<"U+A7D0", "U+A7D1">>>>,
       <<42966, <<"U+A7D6", "U+A7D7", "U+A7D8", "U+A7D9">>>>,
       <<42997, <<"U+A7F5", "U+A7F6">>>>,
       <<43216, <<"U+A8D0", "U+A8D1", "U+A8D2", "U+A8D3", "U+A8D4", "U+A8D5",
                  "U+A8D6", "U+A8D7", "U+A8D8", "U+A8D9">>>>,
       <<43264, <<"U+A900", "U+A901", "U+A902", "U+A903", "U+A904", "U+A905",
                  "U+A906", "U+A907", "U+A908", "U+A909">>>>,
       <<43472, <<"U+A9D0", "U+A9D1", "U+A9D2", "U+A9D3", "U+A9D4", "U+A9D5",
                  "U+A9D6", "U+A9D7", "U+A9D8", "U+A9D9">>>>,
       <<43504, <<"U+A9F0", "U+A9F1", "U+A9F2", "U+A9F3", "U+A9F4", "U+A9F5",
                  "U+A9F6", "U+A9F7", "U+A9F8", "U+A9F9">>>>,
       <<43600, <<"U+AA50", "U+AA51", "U+AA52", "U+AA53", "U+AA54", "U+AA55",
                  "U+AA56", "U+AA57", "U+AA58", "U+AA59">>>>,
       <<43859, <<"U+AB53">>>>,
       <<43888, <<"U+AB70", "U+AB71", "U+AB72", "U+AB73", "U+AB74", "U+AB75",
                  "U+AB76", "U+AB77", "U+AB78", "U+AB79", "U+AB7A", "U+AB7B",
                  "U+AB7C", "U+AB7D", "U+AB7E", "U+AB7F", "U+AB80", "U+AB81",
                  "U+AB82", "U+AB83", "U+AB84", "U+AB85", "U+AB86", "U+AB87",
                  "U+AB88", "U+AB89", "U+AB8A", "U+AB8B", "U+AB8C", "U+AB8D",
                  "U+AB8E", "U+AB8F", "U+AB90", "U+AB91", "U+AB92", "U+AB93",
                  "U+AB94", "U+AB95", "U+AB96", "U+AB97", "U+AB98", "U+AB99",
                  "U+AB9A", "U+AB9B", "U+AB9C", "U+AB9D", "U+AB9E", "U+AB9F",
                  "U+ABA0", "U+ABA1", "U+ABA2", "U+ABA3", "U+ABA4", "U+ABA5",
                  "U+ABA6", "U+ABA7", "U+ABA8", "U+ABA9", "U+ABAA", "U+ABAB",
                  "U+ABAC", "U+ABAD", "U+ABAE", "U+ABAF", "U+ABB0", "U+ABB1",
                  "U+ABB2", "U+ABB3", "U+ABB4", "U+ABB5", "U+ABB6", "U+ABB7",
                  "U+ABB8", "U+ABB9", "U+ABBA", "U+ABBB", "U+ABBC", "U+ABBD",
                  "U+ABBE", "U+ABBF">>>>,
       <<44016, <<"U+ABF0", "U+ABF1", "U+ABF2", "U+ABF3", "U+ABF4", "U+ABF5",
                  "U+ABF6", "U+ABF7", "U+ABF8", "U+ABF9">>>>,
       <<64256, <<"U+FB00", "U+FB01", "U+FB02", "U+FB03", "U+FB04", "U+FB05",
                  "U+FB06">>>>,
       <<64275, <<"U+FB13", "U+FB14", "U+FB15", "U+FB16", "U+FB17">>>>,
       <<65296, <<"U+FF10", "U+FF11", "U+FF12", "U+FF13", "U+FF14", "U+FF15",
                  "U+FF16", "U+FF17", "U+FF18", "U+FF19">>>>,
       <<65313, <<"U+FF21", "U+FF22", "U+FF23", "U+FF24", "U+FF25", "U+FF26",
                  "U+FF27", "U+FF28", "U+FF29", "U+FF2A", "U+FF2B", "U+FF2C",
                  "U+FF2D", "U+FF2E", "U+FF2F", "U+FF30", "U+FF31", "U+FF32",
                  "U+FF33", "U+FF34", "U+FF35", "U+FF36", "U+FF37", "U+FF38",
                  "U+FF39", "U+FF3A">>>>,
       <<65345, <<"U+FF41", "U+FF42", "U+FF43", "U+FF44", "U+FF45", "U+FF46",
                  "U+FF47", "U+FF48", "U+FF49", "U+FF4A", "U+FF4B", "U+FF4C",
                  "U+FF4D", "U+FF4E", "U+FF4F", "U+FF50", "U+FF51", "U+FF52",
                  "U+FF53", "U+FF54", "U+FF55", "U+FF56", "U+FF57", "U+FF58",
                  "U+FF59", "U+FF5A">>>>,
       <<66560, <<"U+10400", "U+10401", "U+10402", "U+10403", "U+10404",
                  "U+10405", "U+10406", "U+10407", "U+10408", "U+10409",
                  "U+1040A", "U+1040B", "U+1040C", "U+1040D", "U+1040E",
                  "U+1040F", "U+10410", "U+10411", "U+10412", "U+10413",
                  "U+10414", "U+10415", "U+10416", "U+10417", "U+10418",
                  "U+10419", "U+1041A", "U+1041B", "U+1041C", "U+1041D",
                  "U+1041E", "U+1041F", "U+10420", "U+10421", "U+10422",
                  "U+10423", "U+10424", "U+10425", "U+10426", "U+10427",
                  "U+10428", "U+10429", "U+1042A", "U+1042B", "U+1042C",
                  "U+1042D", "U+1042E", "U+1042F", "U+10430", "U+10431",
                  "U+10432", "U+10433", "U+10434", "U+10435", "U+10436",
                  "U+10437", "U+10438", "U+10439", "U+1043A", "U+1043B",
                  "U+1043C", "U+1043D", "U+1043E", "U+1043F", "U+10440",
                  "U+10441", "U+10442", "U+10443", "U+10444", "U+10445",
                  "U+10446", "U+10447", "U+10448", "U+10449", "U+1044A",
                  "U+1044B", "U+1044C", "U+1044D", "U+1044E", "U+1044F">>>>,
       <<66720, <<"U+104A0", "U+104A1", "U+104A2", "U+104A3", "U+104A4",
                  "U+104A5", "U+104A6", "U+104A7", "U+104A8", "U+104A9">>>>,
       <<66736, <<"U+104B0", "U+104B1", "U+104B2", "U+104B3", "U+104B4",
                  "U+104B5", "U+104B6", "U+104B7", "U+104B8", "U+104B9",
                  "U+104BA", "U+104BB", "U+104BC", "U+104BD", "U+104BE",
                  "U+104BF", "U+104C0", "U+104C1", "U+104C2", "U+104C3",
                  "U+104C4", "U+104C5", "U+104C6", "U+104C7", "U+104C8",
                  "U+104C9", "U+104CA", "U+104CB", "U+104CC", "U+104CD",
                  "U+104CE", "U+104CF", "U+104D0", "U+104D1", "U+104D2",
                  "U+104D3">>>>,
       <<66776, <<"U+104D8", "U+104D9", "U+104DA", "U+104DB", "U+104DC",
                  "U+104DD", "U+104DE", "U+104DF", "U+104E0", "U+104E1",
                  "U+104E2", "U+104E3", "U+104E4", "U+104E5", "U+104E6",
                  "U+104E7", "U+104E8", "U+104E9", "U+104EA", "U+104EB",
                  "U+104EC", "U+104ED", "U+104EE", "U+104EF", "U+104F0",
                  "U+104F1", "U+104F2", "U+104F3", "U+104F4", "U+104F5",
                  "U+104F6", "U+104F7", "U+104F8", "U+104F9", "U+104FA",
                  "U+104FB">>>>,
       <<66928, <<"U+10570", "U+10571", "U+10572", "U+10573", "U+10574",
                  "U+10575", "U+10576", "U+10577", "U+10578", "U+10579",
                  "U+1057A">>>>,
       <<66940, <<"U+1057C", "U+1057D", "U+1057E", "U+1057F", "U+10580",
                  "U+10581", "U+10582", "U+10583", "U+10584", "U+10585",
                  "U+10586", "U+10587", "U+10588", "U+10589", "U+1058A">>>>,
       <<66956, <<"U+1058C", "U+1058D", "U+1058E", "U+1058F", "U+10590",
                  "U+10591", "U+10592">>>>,
       <<66964, <<"U+10594", "U+10595">>>>,
       <<66967, <<"U+10597", "U+10598", "U+10599", "U+1059A", "U+1059B",
                  "U+1059C", "U+1059D", "U+1059E", "U+1059F", "U+105A0",
                  "U+105A1">>>>,
       <<66979, <<"U+105A3", "U+105A4", "U+105A5", "U+105A6", "U+105A7",
                  "U+105A8", "U+105A9", "U+105AA", "U+105AB", "U+105AC",
                  "U+105AD", "U+105AE", "U+105AF", "U+105B0", "U+105B1">>>>,
       <<66995, <<"U+105B3", "U+105B4", "U+105B5", "U+105B6", "U+105B7",
                  "U+105B8", "U+105B9">>>>,
       <<67003, <<"U+105BB", "U+105BC">>>>,
       <<68736, <<"U+10C80", "U+10C81", "U+10C82", "U+10C83", "U+10C84",
                  "U+10C85", "U+10C86", "U+10C87", "U+10C88", "U+10C89",
                  "U+10C8A", "U+10C8B", "U+10C8C", "U+10C8D", "U+10C8E",
                  "U+10C8F", "U+10C90", "U+10C91", "U+10C92", "U+10C93",
                  "U+10C94", "U+10C95", "U+10C96", "U+10C97", "U+10C98",
                  "U+10C99", "U+10C9A", "U+10C9B", "U+10C9C", "U+10C9D",
                  "U+10C9E", "U+10C9F", "U+10CA0", "U+10CA1", "U+10CA2",
                  "U+10CA3", "U+10CA4", "U+10CA5", "U+10CA6", "U+10CA7",
                  "U+10CA8", "U+10CA9", "U+10CAA", "U+10CAB", "U+10CAC",
                  "U+10CAD", "U+10CAE", "U+10CAF", "U+10CB0", "U+10CB1",
                  "U+10CB2">>>>,
       <<68800, <<"U+10CC0", "U+10CC1", "U+10CC2", "U+10CC3", "U+10CC4",
                  "U+10CC5", "U+10CC6", "U+10CC7", "U+10CC8", "U+10CC9",
                  "U+10CCA", "U+10CCB", "U+10CCC", "U+10CCD", "U+10CCE",
                  "U+10CCF", "U+10CD0", "U+10CD1", "U+10CD2", "U+10CD3",
                  "U+10CD4", "U+10CD5", "U+10CD6", "U+10CD7", "U+10CD8",
                  "U+10CD9", "U+10CDA", "U+10CDB", "U+10CDC", "U+10CDD",
                  "U+10CDE", "U+10CDF", "U+10CE0", "U+10CE1", "U+10CE2",
                  "U+10CE3", "U+10CE4", "U+10CE5", "U+10CE6", "U+10CE7",
                  "U+10CE8", "U+10CE9", "U+10CEA", "U+10CEB", "U+10CEC",
                  "U+10CED", "U+10CEE", "U+10CEF", "U+10CF0", "U+10CF1",
                  "U+10CF2">>>>,
       <<68912, <<"U+10D30", "U+10D31", "U+10D32", "U+10D33", "U+10D34",
                  "U+10D35", "U+10D36", "U+10D37", "U+10D38", "U+10D39">>>>,
       <<69734, <<"U+11066", "U+11067", "U+11068", "U+11069", "U+1106A",
                  "U+1106B", "U+1106C", "U+1106D", "U+1106E", "U+1106F">>>>,
       <<69872, <<"U+110F0", "U+110F1", "U+110F2", "U+110F3", "U+110F4",
                  "U+110F5", "U+110F6", "U+110F7", "U+110F8", "U+110F9">>>>,
       <<69942, <<"U+11136", "U+11137", "U+11138", "U+11139", "U+1113A",
                  "U+1113B", "U+1113C", "U+1113D", "U+1113E", "U+1113F">>>>,
       <<70096, <<"U+111D0", "U+111D1", "U+111D2", "U+111D3", "U+111D4",
                  "U+111D5", "U+111D6", "U+111D7", "U+111D8", "U+111D9">>>>,
       <<70384, <<"U+112F0", "U+112F1", "U+112F2", "U+112F3", "U+112F4",
                  "U+112F5", "U+112F6", "U+112F7", "U+112F8", "U+112F9">>>>,
       <<70736, <<"U+11450", "U+11451", "U+11452", "U+11453", "U+11454",
                  "U+11455", "U+11456", "U+11457", "U+11458", "U+11459">>>>,
       <<70864, <<"U+114D0", "U+114D1", "U+114D2", "U+114D3", "U+114D4",
                  "U+114D5", "U+114D6", "U+114D7", "U+114D8", "U+114D9">>>>,
       <<71248, <<"U+11650", "U+11651", "U+11652", "U+11653", "U+11654",
                  "U+11655", "U+11656", "U+11657", "U+11658", "U+11659">>>>,
       <<71360, <<"U+116C0", "U+116C1", "U+116C2", "U+116C3", "U+116C4",
                  "U+116C5", "U+116C6", "U+116C7", "U+116C8", "U+116C9">>>>,
       <<71472, <<"U+11730", "U+11731", "U+11732", "U+11733", "U+11734",
                  "U+11735", "U+11736", "U+11737", "U+11738", "U+11739">>>>,
       <<71840, <<"U+118A0", "U+118A1", "U+118A2", "U+118A3", "U+118A4",
                  "U+118A5", "U+118A6", "U+118A7", "U+118A8", "U+118A9",
                  "U+118AA", "U+118AB", "U+118AC", "U+118AD", "U+118AE",
                  "U+118AF", "U+118B0", "U+118B1", "U+118B2", "U+118B3",
                  "U+118B4", "U+118B5", "U+118B6", "U+118B7", "U+118B8",
                  "U+118B9", "U+118BA", "U+118BB", "U+118BC", "U+118BD",
                  "U+118BE", "U+118BF", "U+118C0", "U+118C1", "U+118C2",
                  "U+118C3", "U+118C4", "U+118C5", "U+118C6", "U+118C7",
                  "U+118C8", "U+118C9", "U+118CA", "U+118CB", "U+118CC",
                  "U+118CD", "U+118CE", "U+118CF", "U+118D0", "U+118D1",
                  "U+118D2", "U+118D3", "U+118D4", "U+118D5", "U+118D6",
                  "U+118D7", "U+118D8", "U+118D9", "U+118DA", "U+118DB",
                  "U+118DC", "U+118DD", "U+118DE", "U+118DF", "U+118E0",
                  "U+118E1", "U+118E2", "U+118E3", "U+118E4", "U+118E5",
                  "U+118E6", "U+118E7", "U+118E8", "U+118E9">>>>,
       <<72016, <<"U+11950", "U+11951", "U+11952", "U+11953", "U+11954",
                  "U+11955", "U+11956", "U+11957", "U+11958", "U+11959">>>>,
       <<72784, <<"U+11C50", "U+11C51", "U+11C52", "U+11C53", "U+11C54",
                  "U+11C55", "U+11C56", "U+11C57", "U+11C58", "U+11C59">>>>,
       <<73040, <<"U+11D50", "U+11D51", "U+11D52", "U+11D53", "U+11D54",
                  "U+11D55", "U+11D56", "U+11D57", "U+11D58", "U+11D59">>>>,
       <<73120, <<"U+11DA0", "U+11DA1", "U+11DA2", "U+11DA3", "U+11DA4",
                  "U+11DA5", "U+11DA6", "U+11DA7", "U+11DA8", "U+11DA9">>>>,
       <<92768, <<"U+16A60", "U+16A61", "U+16A62", "U+16A63", "U+16A64",
                  "U+16A65", "U+16A66", "U+16A67", "U+16A68", "U+16A69">>>>,
       <<92864, <<"U+16AC0", "U+16AC1", "U+16AC2", "U+16AC3", "U+16AC4",
                  "U+16AC5", "U+16AC6", "U+16AC7", "U+16AC8", "U+16AC9">>>>,
       <<93008, <<"U+16B50", "U+16B51", "U+16B52", "U+16B53", "U+16B54",
                  "U+16B55", "U+16B56", "U+16B57", "U+16B58", "U+16B59">>>>,
       <<93760, <<"U+16E40", "U+16E41", "U+16E42", "U+16E43", "U+16E44",
                  "U+16E45", "U+16E46", "U+16E47", "U+16E48", "U+16E49",
                  "U+16E4A", "U+16E4B", "U+16E4C", "U+16E4D", "U+16E4E",
                  "U+16E4F", "U+16E50", "U+16E51", "U+16E52", "U+16E53",
                  "U+16E54", "U+16E55", "U+16E56", "U+16E57", "U+16E58",
                  "U+16E59", "U+16E5A", "U+16E5B", "U+16E5C", "U+16E5D",
                  "U+16E5E", "U+16E5F", "U+16E60", "U+16E61", "U+16E62",
                  "U+16E63", "U+16E64", "U+16E65", "U+16E66", "U+16E67",
                  "U+16E68", "U+16E69", "U+16E6A", "U+16E6B", "U+16E6C",
                  "U+16E6D", "U+16E6E", "U+16E6F", "U+16E70", "U+16E71",
                  "U+16E72", "U+16E73", "U+16E74", "U+16E75", "U+16E76",
                  "U+16E77", "U+16E78", "U+16E79", "U+16E7A", "U+16E7B",
                  "U+16E7C", "U+16E7D", "U+16E7E", "U+16E7F">>>>,
       <<120782, <<"U+1D7CE", "U+1D7CF", "U+1D7D0", "U+1D7D1", "U+1D7D2",
                   "U+1D7D3", "U+1D7D4", "U+1D7D5", "U+1D7D6", "U+1D7D7",
                   "U+1D7D8", "U+1D7D9", "U+1D7DA", "U+1D7DB", "U+1D7DC",
                   "U+1D7DD", "U+1D7DE", "U+1D7DF", "U+1D7E0", "U+1D7E1",
                   "U+1D7E2", "U+1D7E3", "U+1D7E4", "U+1D7E5", "U+1D7E6",
                   "U+1D7E7", "U+1D7E8", "U+1D7E9", "U+1D7EA", "U+1D7EB",
                   "U+1D7EC", "U+1D7ED", "U+1D7EE", "U+1D7EF", "U+1D7F0",
                   "U+1D7F1", "U+1D7F2", "U+1D7F3", "U+1D7F4", "U+1D7F5",
                   "U+1D7F6", "U+1D7F7", "U+1D7F8", "U+1D7F9", "U+1D7FA",
                   "U+1D7FB", "U+1D7FC", "U+1D7FD", "U+1D7FE", "U+1D7FF">>>>,
       <<123200, <<"U+1E140", "U+1E141", "U+1E142", "U+1E143", "U+1E144",
                   "U+1E145", "U+1E146", "U+1E147", "U+1E148", "U+1E149">>>>,
       <<123632, <<"U+1E2F0", "U+1E2F1", "U+1E2F2", "U+1E2F3", "U+1E2F4",
                   "U+1E2F5", "U+1E2F6", "U+1E2F7", "U+1E2F8", "U+1E2F9">>>>,
       <<125184, <<"U+1E900", "U+1E901", "U+1E902", "U+1E903", "U+1E904",
                   "U+1E905", "U+1E906", "U+1E907", "U+1E908", "U+1E909",
                   "U+1E90A", "U+1E90B", "U+1E90C", "U+1E90D", "U+1E90E",
                   "U+1E90F", "U+1E910", "U+1E911", "U+1E912", "U+1E913",
                   "U+1E914", "U+1E915", "U+1E916", "U+1E917", "U+1E918",
                   "U+1E919", "U+1E91A", "U+1E91B", "U+1E91C", "U+1E91D",
                   "U+1E91E", "U+1E91F", "U+1E920", "U+1E921", "U+1E922",
                   "U+1E923", "U+1E924", "U+1E925", "U+1E926", "U+1E927",
                   "U+1E928", "U+1E929", "U+1E92A", "U+1E92B", "U+1E92C",
                   "U+1E92D", "U+1E92E", "U+1E92F", "U+1E930", "U+1E931",
                   "U+1E932", "U+1E933", "U+1E934", "U+1E935", "U+1E936",
                   "U+1E937", "U+1E938", "U+1E939", "U+1E93A", "U+1E93B",
                   "U+1E93C", "U+1E93D", "U+1E93E", "U+1E93F", "U+1E940",
                   "U+1E941", "U+1E942", "U+1E943">>>>,
       <<125264, <<"U+1E950", "U+1E951", "U+1E952", "U+1E953", "U+1E954",
                   "U+1E955", "U+1E956", "U+1E957", "U+1E958", "U+1E959">>>>,
       <<130032, <<"U+1FBF0", "U+1FBF1", "U+1FBF2", "U+1FBF3", "U+1FBF4",
                   "U+1FBF5", "U+1FBF6", "U+1FBF7", "U+1FBF8", "U+1FBF9">>>> >>

\* the place of the character in its run
PlaceIn(run, c) == CHOOSE k \in 1..Len(run[2]) : run[2][k] = c

\* the run that holds the character
RunOf(c) ==
    CodePointRuns[CHOOSE r \in 1..Len(CodePointRuns) :
                     \E k \in 1..Len(CodePointRuns[r][2]) : CodePointRuns[r][2][k] = c]

\* ord() of a character
Ord(c) == RunOf(c)[1] + PlaceIn(RunOf(c), c) - 1

\* a < b of two str: the order of the code points at the first place they
\* differ, a text before the texts it begins
RECURSIVE TextLess(_, _)
TextLess(a, b) ==
    IF b = <<>> THEN FALSE
    ELSE IF a = <<>> THEN TRUE
    ELSE IF a[1] # b[1] THEN Ord(a[1]) < Ord(b[1])
    ELSE TextLess(Tail(a), Tail(b))

\* sorted() of a set of str
RECURSIVE sorted(_)
sorted(texts) ==
    IF texts = {} THEN <<>>
    ELSE <<CHOOSE x \in texts : \A y \in texts : ~TextLess(y, x)>>
           \o sorted(texts \ {CHOOSE x \in texts : \A y \in texts : ~TextLess(y, x)})

\* sep.join(texts)
RECURSIVE join(_, _)
join(sep, texts) ==
    IF texts = <<>> THEN <<>>
    ELSE IF Len(texts) = 1 THEN texts[1]
    ELSE texts[1] \o sep \o join(sep, Tail(texts))

\* str() of an int that is not negative
RECURSIVE str_int(_)
str_int(n) ==
    IF n < 10 THEN <<DigitChar(n)>> ELSE str_int(n \div 10) \o <<DigitChar(n % 10)>>

\* the overview, the values as they are in the dict
HighLevel(total, rs) ==
    [Total_lines |-> total,
     Matched_entries |-> Len(rs),
     Unique_messages |-> Len(Counter(rs)),
     Time_range_start |-> IF earliest(rs) # None THEN isoformat(earliest(rs)) ELSE NA,
     Time_range_end |-> IF latest(rs) # None THEN isoformat(latest(rs)) ELSE NA,
     Levels_included |-> join(<<",", " ">>, sorted(allowed))]


\* high_level.items(): the keys in the order of the dict, each with the
\* str() of its value
Items(hl) ==
    << <<<<"T", "o", "t", "a", "l", " ", "l", "i", "n", "e", "s">>,
           str_int(hl.Total_lines)>>,
       <<<<"M", "a", "t", "c", "h", "e", "d", " ", "e", "n", "t", "r", "i",
         "e", "s">>,
           str_int(hl.Matched_entries)>>,
       <<<<"U", "n", "i", "q", "u", "e", " ", "m", "e", "s", "s", "a", "g",
         "e", "s">>,
           str_int(hl.Unique_messages)>>,
       <<<<"T", "i", "m", "e", " ", "r", "a", "n", "g", "e", " ", "s", "t",
         "a", "r", "t">>,
           hl.Time_range_start>>,
       <<<<"T", "i", "m", "e", " ", "r", "a", "n", "g", "e", " ", "e", "n",
         "d">>,
           hl.Time_range_end>>,
       <<<<"L", "e", "v", "e", "l", "s", " ", "i", "n", "c", "l", "u", "d",
         "e", "d">>,
           hl.Levels_included>> >>

-----------------------------------------------------------------------------
(* pathlib.Path on a POSIX system *)

\* the number of "/" the text begins with
RECURSIVE LeadingSlashes(_)
LeadingSlashes(str) ==
    IF str # <<>> /\ str[1] = "/" THEN 1 + LeadingSlashes(Tail(str)) ELSE 0

\* str.split("/")
RECURSIVE SplitSlash(_, _)
SplitSlash(str, part) ==
    IF str = <<>> THEN <<part>>
    ELSE IF str[1] = "/" THEN <<part>> \o SplitSlash(Tail(str), <<>>)
    ELSE SplitSlash(Tail(str), Append(part, str[1]))

\* Path(text): the root ("//" when the text begins with two "/" exactly) and
\* the parts, the empty parts and the "." parts left out
Path(str) ==
    [root |-> IF LeadingSlashes(str) = 0 THEN <<>>
              ELSE IF LeadingSlashes(str) = 2 THEN <<"/", "/">>
              ELSE <<"/">>,
     parts |-> SelectSeq(SplitSlash(str, <<>>), LAMBDA p : p # <<>> /\ p # <<".">>)]

\* str(path)
PathStr(p) ==
    IF p.root = <<>> /\ p.parts = <<>> THEN <<".">>
    ELSE p.root \o join(<<"/">>, p.parts)

\* path.with_name(name) of a path that has a name
with_name(p, name) ==
    [p EXCEPT !.parts = Append(Slice(p.parts, 1, Len(p.parts) - 1), name)]

-----------------------------------------------------------------------------
(* The inputs: command lines and log files *)

ERROR == <<"E", "R", "R", "O", "R">>
WARNING == <<"W", "A", "R", "N", "I", "N", "G">>
INFO == <<"I", "N", "F", "O">>
LowerWarning == <<"w", "a", "r", "n", "i", "n", "g">>
\* "info" written with U+0131, the dotless i, which str.upper makes "I"
DotlessInfo == <<"U+0131", "n", "f", "o">>
\* a level that str.upper makes longer: U+00DF becomes "SS"
Eszett == <<"ß">>

DiskFull == <<"D", "i", "s", "k", " ", "f", "u", "l", "l">>
LowMemory == <<"L", "o", "w", " ", "m", "e", "m", "o", "r", "y">>
Up == <<"u", "p">>

Day == <<"2", "0", "2", "5", "-", "0", "8", "-", "1", "4">>
Stamp1000 == Day \o <<" ", "1", "0", ":", "0", "0", ":", "0", "0">>
Stamp1005 == Day \o <<" ", "1", "0", ":", "0", "5", ":", "0", "0">>
Stamp102245 == Day \o <<" ", "1", "0", ":", "2", "2", ":", "4", "5">>
\* a timestamp text no format parses
NoStamp == <<"?", "?">>

\* "[<timestamp>] <LEVEL>: <message>", the sample of PATTERN_BRACKET
Bracketed(stamp, level, msg) ==
    <<"[">> \o stamp \o <<"]", " ">> \o level \o <<":", " ">> \o msg

\* "<timestamp> <LEVEL> <message>", the sample of PATTERN_SPACE
Spaced(stamp, level, msg) == stamp \o <<" ">> \o level \o <<" ">> \o msg

Unstructured ==
    <<"r", "a", "n", "d", "o", "m", " ", "u", "n", "s", "t", "r", "u", "c", "t",
      "u", "r", "e", "d", " ", "t", "e", "x", "t">>

\* "2025-08-14 10:22:45,123 WARNING Low memory"
Scenario2 == Spaced(Stamp102245 \o <<",", "1", "2", "3">>, WARNING, LowMemory)

\* the lines a log file is made of, each with its line end
FileLines ==
    {ln \o <<"\n">> : ln \in
        {Bracketed(Stamp1000, ERROR, DiskFull),
         Bracketed(Stamp1005, WARNING, DiskFull),
         Bracketed(NoStamp, WARNING, DiskFull),
         Scenario2,
         Bracketed(Stamp1005, INFO, LowMemory),
         Bracketed(NoStamp, WARNING, Up),
         Unstructured}}

\* the longest log file
MaxLines == 3

Files == UNION {[1..n -> FileLines] : n \in 0..MaxLines}

\* --input and --output
AppLog == <<"a", "p", "p", ".", "l", "o", "g">>
LogsAppLog ==
    <<"l", "o", "g", "s", "/", "/", ".", "/", "a", "p", "p", ".", "l", "o",
      "g">>
VarLogAppLog ==
    <<"/", "v", "a", "r", "/", "l", "o", "g", "/", "a", "p", "p", ".", "l",
      "o", "g">>
OutReport ==
    <<"o", "u", "t", "/", "r", "e", "p", "o", "r", "t", ".", "c", "s", "v">>

\* the command lines: --levels is the default, one level given in lower
\* case, or levels that str.upper changes beyond a ... z; --format is xlsx
\* or csv; --output is given or not
CommandLines ==
    {[levels |-> <<ERROR, WARNING, INFO>>, format |-> "csv",
      input |-> LogsAppLog, output |-> None],
     [levels |-> <<LowerWarning, Eszett, DotlessInfo>>, format |-> "xlsx",
      input |-> VarLogAppLog, output |-> None],
     [levels |-> <<LowerWarning>>, format |-> "csv",
      input |-> AppLog, output |-> OutReport]}

-----------------------------------------------------------------------------
(* main *)

NoRecord == [ts |-> None, level |-> None, msg |-> None]

\* the variables of parse_line and try_parse_dt called alone
PureIdle == /\ line = None /\ parsed = NoRecord /\ s = None /\ dt = Returns(None)

\* the command line is parsed; the log file is there with its lines, or it
\* is not there
Init ==
    /\ \E args \in CommandLines :
          /\ levels = args.levels
          /\ format = args.format
          /\ log_path = args.input
          /\ output = args.output
    /\ \/ exists = TRUE /\ input \in Files
       \/ exists = FALSE /\ input = <<>>
    /\ f = None
    /\ pc = "main"
    /\ raised = None
    /\ total_lines = 0
    /\ rows = <<>>
    /\ df = <<>>
    /\ high_level = None
    /\ out_path = None
    /\ report = <<>>
    /\ stdout = <<>>
    /\ PureIdle

InputFileNotFound ==
    <<"I", "n", "p", "u", "t", " ", "f", "i", "l", "e", " ", "n", "o", "t",
      " ", "f", "o", "u", "n", "d", ":", " ">>

\* log_path.exists() raises (a directory of the path may not be searched,
\* a name of the path is too long), a file being at log_path or not: the
\* run ends with that exception before rows and total_lines are bound
ExistsFails ==
    /\ pc = "main"
    /\ raised' = <<"OSError", <<>>>>
    /\ pc' = "raised"
    /\ UNCHANGED <<levels, format, log_path, output, exists, input, f, total_lines,
                   rows, df, high_level, out_path, report, stdout, line, parsed,
                   s, dt>>

\* "if not log_path.exists(): raise FileNotFoundError(...)"
InputNotFound ==
    /\ pc = "main"
    /\ ~exists
    /\ raised' = <<"FileNotFoundError", InputFileNotFound \o PathStr(Path(log_path))>>
    /\ pc' = "raised"
    /\ UNCHANGED <<levels, format, log_path, output, exists, input, f, total_lines,
                   rows, df, high_level, out_path, report, stdout, line, parsed,
                   s, dt>>

\* the file is there and log_path.open raises (a directory, a file that may
\* not be read): the run ends with that exception before a line is read
OpenFails ==
    /\ pc = "main"
    /\ exists
    /\ rows' = <<>>
    /\ total_lines' = 0
    /\ raised' = <<"OSError", <<>>>>
    /\ pc' = "raised"
    /\ UNCHANGED <<levels, format, log_path, output, exists, input, f, df,
                   high_level, out_path, report, stdout, line, parsed, s, dt>>

\* the file is there: rows = [], total_lines = 0 and the file is opened, f
\* at its first line
OpenInput ==
    /\ pc = "main"
    /\ exists
    /\ rows' = <<>>
    /\ total_lines' = 0
    /\ f' = input
    /\ pc' = "read"
    /\ UNCHANGED <<levels, format, log_path, output, exists, input, raised, df,
                   high_level, out_path, report, stdout, line, parsed, s, dt>>

\* "for line in f": the file has a line to give
MoreLines == pc = "read" /\ f # <<>>

NextLine == Head(f)

\* the next line is read; total_lines += 1; ts, level, msg = parse_line(line)
ReadAndParse(r) ==
    /\ f' = Tail(f)
    /\ total_lines' = total_lines + 1
    /\ line' = NextLine
    /\ parsed' = r
    /\ UNCHANGED <<levels, format, log_path, output, exists, input, pc, raised, df,
                   high_level, out_path, report, stdout, s, dt>>

\* "if level is None: continue"
NoMatchBranch(r) ==
    /\ r.level = None
    /\ ReadAndParse(r)
    /\ UNCHANGED rows

\* a variant that keeps the record of a line whose level is not allowed
ExcludedBranchKeeps(r) ==
    /\ r.level # None
    /\ upper(r.level) \notin allowed
    /\ ReadAndParse(r)
    /\ rows' = Append(rows, [ts |-> r.ts, level |-> upper(r.level), msg |-> r.msg])

\* the level is not in allowed: the line is dropped
ExcludedBranch(r) ==
    /\ r.level # None
    /\ upper(r.level) \notin allowed
    /\ ReadAndParse(r)
    /\ UNCHANGED rows

\* a variant that keeps only the records that have a timestamp
MatchedBranchDatedOnly(r) ==
    /\ r.level # None
    /\ upper(r.level) \in allowed
    /\ ReadAndParse(r)
    /\ rows' = IF r.ts = None THEN rows
               ELSE Append(rows, [ts |-> r.ts, level |-> upper(r.level), msg |-> r.msg])

\* rows.append((ts, level.upper(), msg))
MatchedBranch(r) ==
    /\ r.level # None
    /\ upper(r.level) \in allowed
    /\ ReadAndParse(r)
    /\ rows' = Append(rows, [ts |-> r.ts, level |-> upper(r.level), msg |-> r.msg])

\* parse_line is a function of the line alone: its value on every line a
\* file may hold
ParsedLine == [ln \in FileLines |-> parse_line(ln)]

ReadNoMatch == MoreLines /\ NoMatchBranch(ParsedLine[NextLine])

ReadExcluded == MoreLines /\ ExcludedBranch(ParsedLine[NextLine])

ReadMatched == MoreLines /\ MatchedBranch(ParsedLine[NextLine])

\* "for line in f" raises while the file is read (the device fails, the
\* other end of a terminal is closed), before the first line, between two
\* lines or in place of the end of the file: no handler is around the loop,
\* the run ends with that exception and with what was counted and kept
ReadFails ==
    /\ pc = "read"
    /\ raised' = <<"OSError", <<>>>>
    /\ pc' = "raised"
    /\ UNCHANGED <<levels, format, log_path, output, exists, input, f, total_lines,
                   rows, df, high_level, out_path, report, stdout, line, parsed,
                   s, dt>>

\* the file gives no more line: the loop ends
AtEndOfFile == pc = "read" /\ f = <<>>

NoMatchingEntries ==
    <<"N", "o", " ", "m", "a", "t", "c", "h", "i", "n", "g", " ", "l", "o",
      "g", " ", "e", "n", "t", "r", "i", "e", "s", " ", "f", "o", "u", "n",
      "d", " ", "w", "i", "t", "h", " ", "t", "h", "e", " ", "g", "i", "v",
      "e", "n", " ", "l", "e", "v", "e", "l", "s", "/", "p", "a", "t", "t",
      "e", "r", "n", "s", ".">>

\* "if not rows: print(...); return"
EmptyResult ==
    /\ AtEndOfFile
    /\ rows = <<>>
    /\ stdout' = Append(stdout, NoMatchingEntries)
    /\ pc' = "returned"
    /\ UNCHANGED <<levels, format, log_path, output, exists, input, f, raised,
                   total_lines, rows, df, high_level, out_path, report, line,
                   parsed, s, dt>>

\* "if not rows" holds and the print raises (stdout is closed, the pipe is
\* broken): the run ends with that exception in place of the return
PrintNoMatchFails ==
    /\ AtEndOfFile
    /\ rows = <<>>
    /\ raised' = <<"Exception", <<>>>>
    /\ pc' = "raised"
    /\ UNCHANGED <<levels, format, log_path, output, exists, input, f, total_lines,
                   rows, df, high_level, out_path, report, stdout, line, parsed,
                   s, dt>>

\* a variant without the "if not rows" return before it
AggregateUnguarded ==
    /\ pc = "read"
    /\ f = <<>>
    /\ df' = sort_values(Data(rows))
    /\ high_level' = HighLevel(total_lines, rows)
    /\ pc' = "write"
    /\ UNCHANGED <<levels, format, log_path, output, exists, input, f, raised,
                   total_lines, rows, out_path, report, stdout, line, parsed, s, dt>>

\* the statistics, the sorted frame and the overview
Aggregate ==
    /\ AtEndOfFile
    /\ rows # <<>>
    /\ df' = sort_values(Data(rows))
    /\ high_level' = HighLevel(total_lines, rows)
    /\ pc' = "write"
    /\ UNCHANGED <<levels, format, log_path, output, exists, input, f, raised,
                   total_lines, rows, out_path, report, stdout, line, parsed, s, dt>>

SummaryName ==
    <<"j", "o", "h", "n", "n", "y", "_", "l", "o", "g", "_", "p", "a", "r",
      "s", "e", "r", "_", "s", "u", "m", "m", "a", "r", "y", ".">>

\* args.format as text
FormatText == IF format = "xlsx" THEN <<"x", "l", "s", "x">> ELSE <<"c", "s", "v">>

\* Path(args.output) if args.output else log_path.with_name(...)
OutPath ==
    IF output # <<>> THEN Path(output)
    ELSE with_name(Path(log_path), SummaryName \o FormatText)

FailedWriting ==
    <<"F", "a", "i", "l", "e", "d", " ", "w", "r", "i", "t", "i", "n", "g",
      " ", ".", "x", "l", "s", "x", " ", "(", "m", "i", "s", "s", "i", "n",
      "g", " ", "o", "p", "e", "n", "p", "y", "x", "l", "?", ")", ".", " ",
      "T", "r", "y", ":", " ", "p", "i", "p", " ", "i", "n", "s", "t", "a",
      "l", "l", " ", "o", "p", "e", "n", "p", "y", "x", "l">>

Done == <<"â", "U+0153", "U+2026", " ", "D", "o", "n", "e", "!">>

OutputSavedTo ==
    <<"O", "u", "t", "p", "u", "t", " ", "s", "a", "v", "e", "d", " ", "t",
      "o", ":", " ">>

Overview == <<"O", "v", "e", "r", "v", "i", "e", "w", ":">>

\* the lines of print(f"- {k}: {v}") for the items of the overview
ItemLines(items) ==
    [i \in 1..Len(items) |-> <<"-", " ">> \o items[i][1] \o <<":", " ">> \o items[i][2]]

\* the lines the run prints once the report is written; print("\nOverview:")
\* prints an empty line and the heading
Printed(path, hl) ==
    <<Done, OutputSavedTo \o PathStr(path), <<>>, Overview>> \o ItemLines(Items(hl))

\* what the write steps leave alone
WriteFrame ==
    UNCHANGED <<levels, format, log_path, output, exists, input, f, total_lines,
                rows, df, high_level, line, parsed, s, dt>>

\* the Summary and the Overview sheets of the spreadsheet, then the prints
WriteXlsx ==
    /\ pc = "write"
    /\ format = "xlsx"
    /\ out_path' = OutPath
    /\ report' = <<"Summary", "Overview">>
    /\ stdout' = stdout \o Printed(OutPath, high_level)
    /\ pc' = "done"
    /\ UNCHANGED raised
    /\ WriteFrame

\* writing the spreadsheet raises (openpyxl is not installed, the file can
\* not be written): the message is printed and the exception raised again,
\* or the print in the handler raises and the run ends with its exception
WriteXlsxFails ==
    /\ pc = "write"
    /\ format = "xlsx"
    /\ out_path' = OutPath
    /\ \/ stdout' = Append(stdout, FailedWriting)
       \/ stdout' = stdout
    /\ raised' = <<"Exception", <<>>>>
    /\ pc' = "raised"
    /\ UNCHANGED report
    /\ WriteFrame

\* df.to_csv: the Summary alone, then the prints
WriteCsv ==
    /\ pc = "write"
    /\ format # "xlsx"
    /\ out_path' = OutPath
    /\ report' = <<"Summary">>
    /\ stdout' = stdout \o Printed(OutPath, high_level)
    /\ pc' = "done"
    /\ UNCHANGED raised
    /\ WriteFrame

\* df.to_csv raises (the directory of out_path is missing, the file may not
\* be written): the run ends with that exception, nothing printed
WriteCsvFails ==
    /\ pc = "write"
    /\ format # "xlsx"
    /\ out_path' = OutPath
    /\ raised' = <<"Exception", <<>>>>
    /\ pc' = "raised"
    /\ UNCHANGED <<report, stdout>>
    /\ WriteFrame

\* the report is written and one of the prints after it raises (stdout does
\* not encode the text of the line, stdout is closed, the pipe is broken):
\* the run ends with that exception after the lines of the prints that
\* returned; print("\nOverview:") is one print of two lines, and an
\* exception is "Exception" whatever its class
PrintFails ==
    /\ pc = "write"
    /\ out_path' = OutPath
    /\ report' = IF format = "xlsx" THEN <<"Summary", "Overview">> ELSE <<"Summary">>
    /\ \E k \in (0..(Len(Printed(OutPath, high_level)) - 1)) \ {3} :
          stdout' = stdout \o SubSeq(Printed(OutPath, high_level), 1, k)
    /\ raised' = <<"Exception", <<>>>>
    /\ pc' = "raised"
    /\ WriteFrame

Next ==
    \/ ExistsFails
    \/ InputNotFound
    \/ OpenFails
    \/ OpenInput
    \/ ReadNoMatch
    \/ ReadExcluded
    \/ ReadMatched
    \/ ReadFails
    \/ EmptyResult
    \/ PrintNoMatchFails
    \/ Aggregate
    \/ WriteXlsx
    \/ WriteXlsxFails
    \/ WriteCsv
    \/ WriteCsvFails
    \/ PrintFails

Spec == Init /\ [][Next]_vars

-----------------------------------------------------------------------------
(* try_parse_dt called alone, on timestamp texts *)

DateTexts ==
    {<<"2", "0", "2", "5", "-", "0", "8", "-", "1", "4">>,
     <<"2", "0", "2", "5", "-", "8", "-", "4">>,
     <<"2", "0", "2", "5", "-", "0", "2", "-", "3", "0">>,
     <<"2", "0", "2", "4", "-", "0", "2", "-", "2", "9">>,
     <<"0", "0", "0", "0", "-", "0", "1", "-", "0", "1">>,
     <<"2", "0", "2", "5", "-", "0", "8", "-", " ", "4">>,
     <<"U+0662", "U+0660", "U+0662", "U+0665", "-", "0", "U+0668", "-", "1", "U+0664">>,
     <<"2", "0", "2", "5", "-", "U+0661", "2", "-", "3", "1">>}

DateTimeSeparators ==
    {<<" ">>,
     <<"T">>,
     <<"t">>,
     <<" ", " ">>,
     <<"\f">>,
     <<"U+3000", "\n">>}

TimeTexts ==
    {<<"1", "0", ":", "2", "2", ":", "4", "5">>,
     <<"1", ":", "2", ":", "3">>,
     <<"1", "0", ":", "2", "2", ":", "6", "0">>,
     <<"2", "4", ":", "0", "0", ":", "0", "0">>}

FractionTexts ==
    {<<>>,
     <<",", "1", "2", "3">>,
     <<".", "1", "2", "3">>,
     <<",">>,
     <<",", "1", "2", "3", "4", "5", "6", "7">>,
     <<",", "1", "2", ",", "3">>,
     <<".", "1", "2", "3", "4", "5", "6", "7">>,
     <<",", "x">>}

\* the texts try_parse_dt is called on: a date, a separator, a time and what
\* follows the seconds, in every combination, and three texts of no such shape
DtTexts ==
    {d \o sep \o tm \o frac : d \in DateTexts, sep \in DateTimeSeparators,
                           tm \in TimeTexts, frac \in FractionTexts}
      \cup {<<>>, <<",">>, <<"x">>}

\* the variables of main while a function is called alone
MainIdle ==
    /\ levels = <<>>
    /\ format = "xlsx"
    /\ log_path = <<>>
    /\ output = None
    /\ exists = FALSE
    /\ input = <<>>
    /\ f = None
    /\ raised = None
    /\ total_lines = 0
    /\ rows = <<>>
    /\ df = <<>>
    /\ high_level = None
    /\ out_path = None
    /\ report = <<>>
    /\ stdout = <<>>

InitDt ==
    /\ MainIdle
    /\ pc = "try_parse_dt"
    /\ s \in DtTexts
    /\ dt = Returns(None)
    /\ line = None
    /\ parsed = NoRecord

\* try_parse_dt(s) returns (or raises): dt is the outcome
TryParseDtEnds ==
    /\ dt' = try_parse_dt(s)
    /\ pc' = "try_parse_dt_ended"
    /\ UNCHANGED <<levels, format, log_path, output, exists, input, f, raised,
                   total_lines, rows, df, high_level, out_path, report, stdout,
                   line, parsed, s>>

\* one of the four formats parses the text
DtByFormat ==
    /\ pc = "try_parse_dt"
    /\ TryFormats(s, 1) # None
    /\ TryParseDtEnds

\* no format parses the text and it holds a comma: the last resort
DtByLastResort ==
    /\ pc = "try_parse_dt"
    /\ TryFormats(s, 1) = None
    /\ HasComma(s)
    /\ TryParseDtEnds

\* no format parses the text and it holds no comma
DtNoComma ==
    /\ pc = "try_parse_dt"
    /\ TryFormats(s, 1) = None
    /\ ~HasComma(s)
    /\ TryParseDtEnds

NextDt == DtByFormat \/ DtByLastResort \/ DtNoComma

SpecDt == InitDt /\ [][NextDt]_vars

-----------------------------------------------------------------------------
(* parse_line called alone, on lines *)

ShortAlphabet == {"[", "]", "E", ":", " ", "x"}

\* the longest of the short lines
MaxShortLen == 5

\* every line of at most MaxShortLen characters of the short alphabet
ShortLines == UNION {[1..n -> ShortAlphabet] : n \in 0..MaxShortLen}

\* timestamp texts of the PATTERN_SPACE shape, with what may follow the seconds
LineStamps ==
    {d \o sep \o <<"1", "0", ":", "2", "2", ":", "4", "5">> \o frac :
        d \in {Day, <<"U+0662", "U+0660", "U+0662", "U+0665", "-", "0", "8", "-", "1", "4">>},
        sep \in {<<" ">>, <<"T">>}, frac \in FractionTexts}

\* timestamp texts only brackets can hold
BracketStamps ==
    {<<" ">> \o Stamp102245 \o <<" ">>,
     <<"\f">> \o Stamp102245 \o <<"U+2003">>,
     Stamp102245 \o <<"]", " ", "[", "t">>,
     <<"a", "]", " ", "b">>}

LineLevels == {ERROR, WARNING, <<"E", "r", "r">>}

LineMessages ==
    {LowMemory, DiskFull, <<>>, <<" ", "a", ":", "b", " ">>, <<"", "m", "">>,
     <<"a", "\n", "b">>, <<"\n", "m">>}

LongLines ==
    {Bracketed(st, lv, m) : st \in LineStamps \cup BracketStamps,
                            lv \in LineLevels, m \in LineMessages}
      \cup {Spaced(st, lv, m) : st \in LineStamps, lv \in LineLevels,
                                m \in LineMessages}

\* the lines parse_line is called on, with and without the line end
Lines == ShortLines \cup LongLines \cup {ln \o <<"\n">> : ln \in LongLines}

InitParse ==
    /\ MainIdle
    /\ pc = "parse_line"
    /\ line \in Lines
    /\ parsed = NoRecord
    /\ s = None
    /\ dt = Returns(None)

\* parse_line(line) returns: s is the timestamp text it hands to
\* try_parse_dt and dt what try_parse_dt gives back, when a pattern matched
ParseLineReturns(m) ==
    /\ parsed' = ParseMatch(m)
    /\ s' = TsRawOf(m)
    /\ dt' = IF m.ok THEN try_parse_dt(strip(m.ts)) ELSE dt
    /\ pc' = "parse_line_returned"
    /\ UNCHANGED <<levels, format, log_path, output, exists, input, f, raised,
                   total_lines, rows, df, high_level, out_path, report, stdout,
                   line>>

\* PATTERN_BRACKET matches
ParseBracket ==
    /\ pc = "parse_line"
    /\ PATTERN_BRACKET(rstrip_newline(line)).ok
    /\ ParseLineReturns(PATTERNS(rstrip_newline(line)))

\* PATTERN_BRACKET does not match and PATTERN_SPACE does
ParseSpace ==
    /\ pc = "parse_line"
    /\ ~PATTERN_BRACKET(rstrip_newline(line)).ok
    /\ PATTERN_SPACE(rstrip_newline(line)).ok
    /\ ParseLineReturns(PATTERNS(rstrip_newline(line)))

\* no pattern matches: return None, None, None
ParseNoMatch ==
    /\ pc = "parse_line"
    /\ ~PATTERNS(rstrip_newline(line)).ok
    /\ ParseLineReturns(PATTERNS(rstrip_newline(line)))

NextParse == ParseBracket \/ ParseSpace \/ ParseNoMatch

SpecParse == InitParse /\ [][NextParse]_vars

-----------------------------------------------------------------------------
(* Properties *)

\* the pass is over and the table is built: the report is about to be
\* written or is written, or the run ended with an exception raised by the
\* writing or by a print after it
Finished ==
    \/ pc \in {"write", "done"}
    \/ pc = "raised" /\ raised[1] = "Exception" /\ df # <<>>

\* the pass over the file is over: the loop ended by the end of the file, and
\* the run returned the empty result, built the table, or ended with an
\* exception raised after the loop
PassOver == pc \in {"returned", "write", "done"} \/ (pc = "raised" /\ raised[1] = "Exception")

\* the run ended with an exception raised before the loop or by the loop
PassFailed == pc = "raised" /\ raised[1] \in {"FileNotFoundError", "OSError"}

\* the line parses and its level is one of the allowed levels
IsMatched(ln) ==
    /\ ParsedLine[ln].level # None
    /\ upper(ParsedLine[ln].level) \in allowed

\* the places in the file of the matched lines that carry the message
MatchedWith(msg) ==
    {i \in 1..Len(input) : IsMatched(input[i]) /\ ParsedLine[input[i]].msg = msg}

\* the timestamp of the line at place i of the file
StampAt(i) == ParsedLine[input[i]].ts

\* the place in the file where the message is first met
FirstMet(msg) ==
    CHOOSE i \in MatchedWith(msg) : \A j \in MatchedWith(msg) : i <= j

\* C1: after the pass, the count of every message of the table is the number
\* of lines that parse, have an allowed level and carry that message; every
\* such message has one entry in the table, whatever the levels of its lines.
C1_CountPerMessage ==
    Finished =>
        /\ \A k \in 1..Len(df) :
              df[k].Count = Cardinality(MatchedWith(df[k].Message))
        /\ \A i \in 1..Len(input) :
              IsMatched(input[i]) =>
                 Cardinality({k \in 1..Len(df) :
                                 df[k].Message = ParsedLine[input[i]].msg}) = 1

\* a message counted twice from lines of two different levels
C1_Witness ==
    /\ pc = "done"
    /\ \E k \in 1..Len(df) :
          /\ df[k].Count = 2
          /\ \E i, j \in MatchedWith(df[k].Message) :
                ParsedLine[input[i]].level # ParsedLine[input[j]].level

\* C2: the table is sorted by count, largest first; entries of one count by
\* Last Seen, latest first, those with no Last Seen after those with one;
\* entries equal on both keys in the order their messages are first met in
\* the file.
C2_SortOrder ==
    Finished =>
        \A i, j \in 1..Len(df) :
            i < j =>
               /\ df[i].Count >= df[j].Count
               /\ df[i].Count = df[j].Count =>
                     /\ df[i].Last_Seen = None => df[j].Last_Seen = None
                     /\ (df[i].Last_Seen # None /\ df[j].Last_Seen # None) =>
                           ~DtLess(df[i].Last_Seen, df[j].Last_Seen)
               /\ (df[i].Count = df[j].Count /\ df[i].Last_Seen = df[j].Last_Seen) =>
                     FirstMet(df[i].Message) < FirstMet(df[j].Message)

\* three messages of one count: the two with the same Last Seen in the order
\* met, and the one with no Last Seen, met first in the file, sorted last
C2_Witness ==
    /\ pc = "done"
    /\ Len(df) = 3
    /\ df[1].Count = df[3].Count
    /\ df[1].Last_Seen # None
    /\ df[1].Last_Seen = df[2].Last_Seen
    /\ df[3].Last_Seen = None
    /\ FirstMet(df[3].Message) = 1

\* C3: after the pass, First Seen of every message is the least and Last Seen
\* the greatest of the timestamps its matched lines have, so First Seen is
\* never after Last Seen; both are missing when no such line has a timestamp.
C3_FirstLastSeen ==
    Finished =>
        \A k \in 1..Len(df) :
            LET stamps == {StampAt(i) : i \in MatchedWith(df[k].Message)} \ {None}
            IN  IF stamps = {}
                THEN df[k].First_Seen = None /\ df[k].Last_Seen = None
                ELSE /\ df[k].First_Seen \in stamps
                     /\ df[k].Last_Seen \in stamps
                     /\ \A t \in stamps : ~DtLess(t, df[k].First_Seen)
                     /\ \A t \in stamps : ~DtLess(df[k].Last_Seen, t)
                     /\ ~DtLess(df[k].Last_Seen, df[k].First_Seen)

\* a message whose later line in the file has the earlier timestamp
C3_Witness ==
    /\ pc = "done"
    /\ \E k \in 1..Len(df) :
          /\ DtLess(df[k].First_Seen, df[k].Last_Seen)
          /\ \E i, j \in MatchedWith(df[k].Message) :
                i < j /\ StampAt(i) # None /\ StampAt(j) # None
                      /\ DtLess(StampAt(j), StampAt(i))

\* the matched lines among the first n lines of the file
MatchedUpTo(n) == {i \in 1..n : IsMatched(input[i])}

\* C4: every line read adds one to total_lines, so that once the file is
\* open the lines counted and the lines not read yet are the lines of the
\* file; a line that matches no pattern or whose level is not allowed adds
\* nothing else: the records kept are as many as the matched lines read,
\* nothing is aggregated, written or printed during the pass nor when the
\* pass fails, matched entries never exceed total_lines, and total_lines is
\* the number of lines of the file once the pass is over.
C4_SkippedLines ==
    /\ total_lines <= Len(input)
    /\ pc # "main" /\ ~PassFailed => total_lines + Len(f) = Len(input)
    /\ PassFailed => total_lines + Len(f) \in {0, Len(input)}
    /\ Len(rows) <= total_lines
    /\ Len(rows) = Cardinality(MatchedUpTo(total_lines))
    /\ (pc \in {"main", "read"} \/ PassFailed) =>
          (df = <<>> /\ report = <<>> /\ stdout = <<>>)
    /\ PassOver => (f = <<>> /\ total_lines = Len(input))

\* a pass over three lines of which one matches no pattern and one has a
\* level that is not allowed
C4_Witness ==
    /\ pc = "done"
    /\ total_lines = 3
    /\ Len(rows) = 1
    /\ \E i \in 1..Len(input) : ParsedLine[input[i]].level = None
    /\ \E i \in 1..Len(input) :
          ParsedLine[input[i]].level # None /\ ~IsMatched(input[i])

\* the records that have a timestamp
Timed(rs) == SelectSeq(rs, LAMBDA r : r.ts # None)

\* C5: a matched line whose timestamp text no format parses is aggregated:
\* it counts in matched entries and in its message's count, and First Seen,
\* Last Seen and the time range are what they are without such lines; a
\* message with only such lines has no First Seen and no Last Seen.
C5_UnparseableTimestamp ==
    Finished =>
        LET timed == Timed(rows)
            first == earliest(timed)
            last == latest(timed)
        IN  /\ high_level.Matched_entries = Cardinality(MatchedUpTo(Len(input)))
            /\ \A k \in 1..Len(df) :
                  LET with == MatchedWith(df[k].Message)
                  IN  /\ df[k].Count = Cardinality(with)
                      /\ df[k].First_Seen =
                            first_seen(timed, Len(timed), df[k].Message)
                      /\ df[k].Last_Seen =
                            last_seen(timed, Len(timed), df[k].Message)
                      /\ (\A i \in with : StampAt(i) = None) =>
                            (df[k].First_Seen = None /\ df[k].Last_Seen = None)
            /\ high_level.Time_range_start =
                  (IF first # None THEN isoformat(first) ELSE NA)
            /\ high_level.Time_range_end =
                  (IF last # None THEN isoformat(last) ELSE NA)

\* a message with a dated line and an undated one, and a message with only
\* an undated line
C5_Witness ==
    /\ pc = "done"
    /\ \E k \in 1..Len(df) :
          /\ df[k].Count = 2
          /\ df[k].First_Seen # None
          /\ \E i \in MatchedWith(df[k].Message) :
                StampAt(i) = None /\ ts_raw(input[i]) = NoStamp
    /\ \E k \in 1..Len(df) : df[k].Count = 1 /\ df[k].First_Seen = None

\* no line of the file is a matched line
NoMatchAtAll == \A i \in 1..Len(input) : ~IsMatched(input[i])

\* C6: when no line of the file is matched, the run ends in the empty result
\* and never writes a sheet nor builds a table; a sheet is written only when
\* some line matched.
C6_EmptyResult ==
    /\ pc = "returned" =>
          /\ NoMatchAtAll
          /\ total_lines = Len(input)
          /\ df = <<>>
          /\ report = <<>>
          /\ stdout = <<NoMatchingEntries>>
    /\ NoMatchAtAll => (~Finished /\ df = <<>> /\ report = <<>>)
    /\ report # <<>> => ~NoMatchAtAll

\* the empty result of a file whose lines parse but have levels not allowed
C6_Witness ==
    /\ pc = "returned"
    /\ total_lines >= 2
    /\ \A i \in 1..Len(input) : ParsedLine[input[i]].level # None

\* C7: in the overview, unique messages is the number of entries of the
\* table, which are of distinct messages; the start of the time range is the
\* least First Seen and its end the greatest Last Seen of the table, and
\* both are N/A when no entry has one.
C7_Overview ==
    Finished =>
        LET firsts == {df[k].First_Seen : k \in 1..Len(df)} \ {None}
            lasts == {df[k].Last_Seen : k \in 1..Len(df)} \ {None}
        IN  /\ high_level.Unique_messages = Len(df)
            /\ high_level.Unique_messages =
                  Cardinality({df[k].Message : k \in 1..Len(df)})
            /\ IF firsts = {} THEN high_level.Time_range_start = NA
               ELSE \E t \in firsts :
                       /\ \A u \in firsts : ~DtLess(u, t)
                       /\ high_level.Time_range_start = isoformat(t)
            /\ IF lasts = {} THEN high_level.Time_range_end = NA
               ELSE \E t \in lasts :
                       /\ \A u \in lasts : ~DtLess(t, u)
                       /\ high_level.Time_range_end = isoformat(t)

\* an overview of three messages, one with no timestamp, whose time range
\* starts before it ends
C7_Witness ==
    /\ pc = "done"
    /\ Len(df) = 3
    /\ \E k \in 1..Len(df) : df[k].First_Seen = None
    /\ high_level.Time_range_start # NA
    /\ high_level.Time_range_start # high_level.Time_range_end

\* the file of the one line "2025-08-14 10:22:45,123 WARNING Low memory",
\* read with the allowed levels {WARNING}
Scenario2Run == exists /\ input = <<Scenario2 \o <<"\n">>>> /\ allowed = {WARNING}

\* C8 as stated: the line yields one record with the timestamp
\* 2025-08-14T10:22:45, the level WARNING and the message "Low memory".
C8_AsStated ==
    (Scenario2Run /\ PassOver) =>
        rows = <<[ts |-> <<2025, 8, 14, 10, 22, 45, 0>>,
                  level |-> WARNING, msg |-> LowMemory]>>

\* C8 amended: the line yields one record with the timestamp
\* 2025-08-14T10:22:45.123000 (the fraction ",123" is kept as 123000
\* microseconds), the level WARNING and the message "Low memory".
C8_Scenario2 ==
    (Scenario2Run /\ PassOver) =>
        rows = <<[ts |-> <<2025, 8, 14, 10, 22, 45, 123000>>,
                  level |-> WARNING, msg |-> LowMemory]>>

\* the run of scenario 2 after its report is written
C8_Witness == Scenario2Run /\ pc = "done" /\ Len(rows) = 1

\* the place of the first character c of the text
FirstPlace(str, c) ==
    CHOOSE i \in 1..Len(str) : str[i] = c /\ \A j \in 1..(i - 1) : str[j] # c

\* C9: for every line the bracketed pattern matches, the timestamp text of
\* parse_line is the trimmed text between the first "[" and the first "]" of
\* the line and holds no "]", the level is the run of upper-case letters
\* that follows, and the message is the trimmed rest after the colon.
C9_BracketGroups ==
    (pc = "parse_line_returned" /\ PATTERN_BRACKET(rstrip_newline(line)).ok) =>
        LET str == rstrip_newline(line)
            close == FirstPlace(str, "]")
            from == SkipWhile(str, close + 1, Whitespace)
            to == SkipWhile(str, from, UpperLetters)
            colon == SkipWhile(str, to, Whitespace)
        IN  /\ "]" \notin {s[i] : i \in 1..Len(s)}
            /\ s = strip(Slice(str, 2, close - 1))
            /\ parsed.level = Slice(str, from, to - 1)
            /\ parsed.msg = strip(Slice(str, colon + 1, Len(str)))

\* the format of DATETIME_FORMATS at place k parses the whole text
Parses(str, k) == ~strptime(str, DATETIME_FORMATS[k]).raises

\* C10: try_parse_dt raises on no text; it returns what the first format
\* that parses the whole text gives; when none of the four does and the text
\* holds a comma, what "%Y-%m-%d %H:%M:%S" gives on the text before the first
\* comma; and None when that fails too or the text holds no comma.
C10_Normalizer ==
    pc = "try_parse_dt_ended" =>
        /\ ~dt.raises
        /\ IF \E k \in 1..Len(DATETIME_FORMATS) : Parses(s, k)
           THEN LET k == CHOOSE k \in 1..Len(DATETIME_FORMATS) :
                            Parses(s, k) /\ \A j \in 1..(k - 1) : ~Parses(s, j)
                IN  dt.value = strptime(s, DATETIME_FORMATS[k]).value
           ELSE IF "," \in {s[i] : i \in 1..Len(s)}
           THEN LET base == Slice(s, 1, FirstPlace(s, ",") - 1)
                IN  IF Parses(base, 1)
                    THEN dt.value = strptime(base, DATETIME_FORMATS[1]).value
                    ELSE dt.value = None
           ELSE dt.value = None

\* a text with two commas that no format parses and the last resort does
C10_Witness ==
    /\ pc = "try_parse_dt_ended"
    /\ \A k \in 1..Len(DATETIME_FORMATS) : ~Parses(s, k)
    /\ Cardinality({i \in 1..Len(s) : s[i] = ","}) = 2
    /\ dt.value # None

=============================================================================
